---- MODULE Spec2Model ----
(***************************************************************************)
(* A model of the lacsap Pascal front end: the parser's closure conversion *)
(* of nested routines, the pointer fix-up of a type block, the type        *)
(* relations of the type registry, the layout of variants and objects, the *)
(* virtual tables of objects and the lowering of for-loops.                *)
(***************************************************************************)
EXTENDS Integers, Sequences, FiniteSets, TLC

(***************************************************************************)
(* Bounds of the model.                                                    *)
(***************************************************************************)
MaxProtos == 3
MaxCalls == 2
MaxDepth == 2
MaxErrors == 1

FuncNames == {"f", "g", "h"}
VarNames == {"x"}
\* std::map<std::string, NamedObject*> iterates in key order
NameOrder == <<"a", "x">>

VARIABLES
    \* ---- parser: closure conversion (Parser::ParseDefinition) ----
    nameStack,       \* Parser::nameStack, a sequence of levels (sets of named objects)
    usedVariables,   \* Parser::usedVariables, a sequence of levels (sets of names)
    frames,          \* the active ParseDefinition calls, outermost first
    protos,          \* every PrototypeAST created
    fns,             \* every FunctionAST created, with the names of its own scope
    calls,           \* every CallExprAST created
    mainPhase,       \* Parser::Parse: "decl", "body" (in the main block), "done"
    errCnt,          \* Parser::errCnt
    \* ---- parser: a type block (Parser::ParseTypeDef) ----
    typeEnv,         \* the type names nameStack holds
    pointerDecls,    \* every Types::PointerDecl created while parsing the block
    incomplete,      \* ParseTypeDef's local vector 'incomplete'
    tdPhase,         \* "parsing", "done" (the block was parsed to its end), "aborted"
    tdErrors,        \* the errors ParseTypeDef reported
    \* ---- type registry: one call of a type relation ----
    tyThis,          \* the type the relation is called on
    tyArg,           \* its argument
    tyOp,            \* "none", "compatible", "assignable"
    tyRes,           \* what the call returned
    \* ---- type registry: the layout of a variant (VariantDecl::GetLlvmType) ----
    variantFields,   \* VariantDecl::fields, each arm by its size and alignment
    elt,             \* the locals of VariantDecl::GetLlvmType
    maxSize,
    maxSizeElt,
    maxAlign,
    maxAlignElt,
    maxAlignSize,
    variantType,     \* what VariantDecl::GetLlvmType returned
    recordFields,    \* RecordDecl::fields, each by its size
    recordVariant,   \* RecordDecl::variant is set
    recordType,      \* what RecordDecl::GetLlvmType returned
    \* ---- lowering: one for-loop (ForExprAST::CodeGen), as it executes ----
    forStart,        \* the value of the start expression
    stepDown,        \* ForExprAST::stepDown
    forPc,           \* "entry", "loop" (at the head of loopBB), "latch", "afterloop"
    loopVar,         \* the memory of the loop variable
    endMem,          \* the memory the end expression reads
    endV,            \* the IR value endV
    bodyCount,       \* how often the body ran
    endEvals,        \* how often the end expression was evaluated
    overflowed,      \* the add of the step wrapped
    \* ---- parser: one set type 'set of c1 .. c2' (Parser::ParseSetDecl) ----
    setTokens,       \* the tokens after 'set of'
    setPhase,        \* "parsing", "parsed"
    setErrors,       \* the errors reported
    setDecl,         \* what ParseSetDecl returned
    \* ---- type registry: objects (ClassDecl) ----
    memberFuncs,     \* every MemberFuncDecl created: name, flags, VirtIndex
    classes,         \* every ClassDecl created
    elemObj,         \* the object ClassDecl::Element was last called on
    elemName,        \* the name it was asked for
    elemRes,         \* what it returned
    \* ---- the scope stacks of the parser and of the lowerer ----
    scopeStacks,     \* nameStack, usedVariables (parser), variables, mangles (lowerer)
    activations,     \* the active calls that push a scope, outermost first
    nextId,          \* how many such calls were made
    lastReturn,      \* the call that returned last: stack depths on entry and on return
    \* ---- parser: one constant expression (Parser::ParseConstExpr) ----
    constTokens,     \* the tokens from the first of the expression to the ';'
    constPhase,      \* "parsing", "parsed"
    constValue,      \* what ParseConstExpr returned
    \* ---- type registry: one call of Bits() ----
    bitsKind,        \* "Range" (RangeDecl::Bits) or "Enum" (EnumDecl::Bits)
    bitsS,           \* the local s
    bitsB,           \* the local b
    bitsPc,          \* "loop", "returned"
    \* ---- lowering: one assignment to a String variable (AssignExprAST::AssignStr) ----
    strCap,          \* the capacity N of the variable: it owns the bytes 0..N
    strRhs,          \* the right-hand side: a char literal or a string literal of len
    strLenByte,      \* the byte stored at offset 0
    strWritten,      \* the offsets from the variable's address that were written
    strPc,           \* "start", "length" (the length byte is stored), "done"
    \* ---- lowering: a set literal of single elements and one membership test on it ----
    inMem,           \* the temporary of the set literal: MaxSetWords words of 32 bits
    inElems,         \* the values of the elements stored so far
    inCount,         \* how many elements of the literal were stored
    inX,             \* the left operand of 'in'
    inRes,           \* the one-bit result of the test
    inPc,            \* "literal" while elements are stored, then "tested"
    \* ---- parser: one record declaration (Parser::ParseRecordDecl, ParseFields) ----
    fldDecl,         \* the declaration read: fixed part, selector name, variant arms
    fldErrors,       \* the messages given to Error
    fldResult,       \* what ParseRecordDecl returns: Null, or the fields and the variant
    fldPc,           \* "start", then "parsed"
    \* ---- parser: one with statement (Parser::ParseWithBlock) and the names looked up in and after it ----
    withTargets,     \* the field names of each variable of 'with a, b do', in order
    withEntry,       \* nameStack when ParseWithBlock is entered
    withStack,       \* nameStack
    withPc,          \* "start", "body" (parsing S), "after" (ParseWithBlock returned)
    withName,        \* the identifier last looked up, "" for none
    withFound,       \* what nameStack.Find gave for it
    \* ---- lowering: one binary expression on two lowered operands (BinaryExprAST::CodeGen) ----
    binL,            \* the IR type of the lowered left operand
    binR,            \* the IR type of the lowered right operand
    binOper,           \* the operator token
    binNDebug,       \* whether the build compiles assert away (NDEBUG)
    binErrCnt,       \* errCnt
    binDiag,         \* what was written to std::cerr and std::cout
    binRes,          \* "value", "null" (returned 0) or "abort" (the process aborted)
    binPc,           \* "start", then "done"
    \* ---- parser: the declarations of a const block (Parser::ParseConstDef) ----
    cdefEnv,         \* nameStack
    cdefCount,       \* how many declarations were parsed
    cdefLast,        \* the last declaration, nameStack before it and its errors
    \* ---- parser: the current token and the one-token lookahead (Parser::NextToken, PeekToken) ----
    lexTokens,       \* the tokens the lexer will give, in order
    lexPos,          \* how many of them lexer.GetToken has given
    curToken,        \* Parser::curToken
    nextToken,       \* Parser::nextToken
    nextTokenValid,  \* Parser::nextTokenValid
    tokHistory,      \* the tokens NextToken has made current, in order
    tokCall,         \* the last call: which, what it returned, curToken before it
    \* ---- lowering: one binary expression on two set operands (BinaryExprAST::CodeGen, CallSetFunc) ----
    sopLhs,          \* the left operand: its name and whether it is an AddressableAST
    sopRhs,          \* the right operand
    sopOper,         \* the operator token
    sopCall,         \* the call emitted: the function, its two arguments, a 'not' on it
    sopPc,           \* "start", then "done"
    \* ---- lowering: a set literal with a range element (SetExprAST::Address) ----
    rngMem,          \* the temporary of the set literal: MaxSetWords words of 32 bits
    rngElems,        \* the values the elements lowered so far denote
    rngSingles,      \* how many single elements were lowered
    rngRanges,       \* how many range elements were lowered
    rngLow,          \* the value zext.low of the range being lowered
    rngHigh,         \* the value zext.high of the range being lowered
    rngPc            \* "literal" between elements, "loop" and "latch" in the loop of a range

closureVars == <<nameStack, usedVariables, frames, protos, fns, calls, mainPhase, errCnt>>
typeDefVars == <<typeEnv, pointerDecls, incomplete, tdPhase, tdErrors>>
typesVars == <<tyThis, tyArg, tyOp, tyRes>>

variantVars == <<variantFields, elt, maxSize, maxSizeElt, maxAlign, maxAlignElt,
                 maxAlignSize, variantType, recordFields, recordVariant, recordType>>
forVars == <<forStart, stepDown, forPc, loopVar, endMem, endV, bodyCount, endEvals,
             overflowed>>
setVars == <<setTokens, setPhase, setErrors, setDecl>>
classVars == <<memberFuncs, classes, elemObj, elemName, elemRes>>

scopeVars == <<scopeStacks, activations, nextId, lastReturn>>

constVars == <<constTokens, constPhase, constValue>>

bitsVars == <<bitsKind, bitsS, bitsB, bitsPc>>

strVars == <<strCap, strRhs, strLenByte, strWritten, strPc>>

inVars == <<inMem, inElems, inCount, inX, inRes, inPc>>

fieldsVars == <<fldDecl, fldErrors, fldResult, fldPc>>

withVars == <<withTargets, withEntry, withStack, withPc, withName, withFound>>

binVars == <<binL, binR, binOper, binNDebug, binErrCnt, binDiag, binRes, binPc>>

constDefVars == <<cdefEnv, cdefCount, cdefLast>>

tokVars == <<lexTokens, lexPos, curToken, nextToken, nextTokenValid, tokHistory, tokCall>>

setOpVars == <<sopLhs, sopRhs, sopOper, sopCall, sopPc>>

rangeVars == <<rngMem, rngElems, rngSingles, rngRanges, rngLow, rngHigh, rngPc>>

vars == <<closureVars, typeDefVars, typesVars, variantVars, forVars, setVars,
          classVars, scopeVars, constVars, bitsVars, strVars, inVars, fieldsVars,
          withVars, binVars, constDefVars, tokVars, setOpVars, rangeVars>>

\* what an action of one part of the model leaves alone
exceptClosure == <<typeDefVars, typesVars, variantVars, forVars, setVars, classVars,
                   scopeVars, constVars, bitsVars, strVars, inVars, fieldsVars,
                   withVars, binVars, constDefVars, tokVars, setOpVars, rangeVars>>
exceptTypeDef == <<closureVars, typesVars, variantVars, forVars, setVars, classVars,
                   scopeVars, constVars, bitsVars, strVars, inVars, fieldsVars,
                   withVars, binVars, constDefVars, tokVars, setOpVars, rangeVars>>
exceptTypes == <<closureVars, typeDefVars, variantVars, forVars, setVars, classVars,
                 scopeVars, constVars, bitsVars, strVars, inVars, fieldsVars, withVars,
                 binVars, constDefVars, tokVars, setOpVars, rangeVars>>
exceptVariant == <<closureVars, typeDefVars, typesVars, forVars, setVars, classVars,
                   scopeVars, constVars, bitsVars, strVars, inVars, fieldsVars,
                   withVars, binVars, constDefVars, tokVars, setOpVars, rangeVars>>
exceptFor == <<closureVars, typeDefVars, typesVars, variantVars, setVars, classVars,
               scopeVars, constVars, bitsVars, strVars, inVars, fieldsVars, withVars,
               binVars, constDefVars, tokVars, setOpVars, rangeVars>>
exceptSet == <<closureVars, typeDefVars, typesVars, variantVars, forVars, classVars,
               scopeVars, constVars, bitsVars, strVars, inVars, fieldsVars, withVars,
               binVars, constDefVars, tokVars, setOpVars, rangeVars>>
exceptClass == <<closureVars, typeDefVars, typesVars, variantVars, forVars, setVars,
                 scopeVars, constVars, bitsVars, strVars, inVars, fieldsVars, withVars,
                 binVars, constDefVars, tokVars, setOpVars, rangeVars>>
exceptScope == <<closureVars, typeDefVars, typesVars, variantVars, forVars, setVars,
                 classVars, constVars, bitsVars, strVars, inVars, fieldsVars, withVars,
                 binVars, constDefVars, tokVars, setOpVars, rangeVars>>
exceptConst == <<closureVars, typeDefVars, typesVars, variantVars, forVars, setVars,
                 classVars, scopeVars, bitsVars, strVars, inVars, fieldsVars, withVars,
                 binVars, constDefVars, tokVars, setOpVars, rangeVars>>
exceptBits == <<closureVars, typeDefVars, typesVars, variantVars, forVars, setVars,
                classVars, scopeVars, constVars, strVars, inVars, fieldsVars, withVars,
                binVars, constDefVars, tokVars, setOpVars, rangeVars>>
exceptStr == <<closureVars, typeDefVars, typesVars, variantVars, forVars, setVars,
               classVars, scopeVars, constVars, bitsVars, inVars, fieldsVars, withVars,
               binVars, constDefVars, tokVars, setOpVars, rangeVars>>
exceptIn == <<closureVars, typeDefVars, typesVars, variantVars, forVars, setVars,
              classVars, scopeVars, constVars, bitsVars, strVars, fieldsVars, withVars,
              binVars, constDefVars, tokVars, setOpVars, rangeVars>>
exceptFields == <<closureVars, typeDefVars, typesVars, variantVars, forVars, setVars,
                  classVars, scopeVars, constVars, bitsVars, strVars, inVars, withVars,
                  binVars, constDefVars, tokVars, setOpVars, rangeVars>>
exceptWith == <<closureVars, typeDefVars, typesVars, variantVars, forVars, setVars,
                classVars, scopeVars, constVars, bitsVars, strVars, inVars, fieldsVars,
                binVars, constDefVars, tokVars, setOpVars, rangeVars>>
exceptBin == <<closureVars, typeDefVars, typesVars, variantVars, forVars, setVars,
               classVars, scopeVars, constVars, bitsVars, strVars, inVars, fieldsVars,
               withVars, constDefVars, tokVars, setOpVars, rangeVars>>
exceptConstDef == <<closureVars, typeDefVars, typesVars, variantVars, forVars, setVars,
                    classVars, scopeVars, constVars, bitsVars, strVars, inVars,
                    fieldsVars, withVars, binVars, tokVars, setOpVars, rangeVars>>
exceptTok == <<closureVars, typeDefVars, typesVars, variantVars, forVars, setVars,
               classVars, scopeVars, constVars, bitsVars, strVars, inVars, fieldsVars,
               withVars, binVars, constDefVars, setOpVars, rangeVars>>
exceptSetOp == <<closureVars, typeDefVars, typesVars, variantVars, forVars, setVars,
                 classVars, scopeVars, constVars, bitsVars, strVars, inVars,
                 fieldsVars, withVars, binVars, constDefVars, tokVars, rangeVars>>
exceptRange == <<closureVars, typeDefVars, typesVars, variantVars, forVars, setVars,
                 classVars, scopeVars, constVars, bitsVars, strVars, inVars,
                 fieldsVars, withVars, binVars, constDefVars, tokVars, setOpVars>>

\* the parts of the model a specification does not exercise
VariantIdle ==
    /\ variantFields = <<>>
    /\ elt = 0
    /\ maxSize = 0
    /\ maxSizeElt = 0
    /\ maxAlign = 0
    /\ maxAlignElt = 0
    /\ maxAlignSize = 0
    /\ variantType = [state |-> "idle", members |-> <<>>]
    /\ recordFields = <<>>
    /\ recordVariant = FALSE
    /\ recordType = [state |-> "idle", members |-> <<>>]

ForIdle ==
    /\ forStart = 0
    /\ stepDown = FALSE
    /\ forPc = "idle"
    /\ loopVar = 0
    /\ endMem = 0
    /\ endV = 0
    /\ bodyCount = 0
    /\ endEvals = 0
    /\ overflowed = FALSE

SetIdle ==
    /\ setTokens = <<>>
    /\ setPhase = "idle"
    /\ setErrors = {}
    /\ setDecl = [kind |-> "Null"]

ClassIdle ==
    /\ memberFuncs = <<>>
    /\ classes = <<>>
    /\ elemObj = 0
    /\ elemName = ""
    /\ elemRes = 0

ScopeIdle ==
    /\ scopeStacks = <<>>
    /\ activations = <<>>
    /\ nextId = 0
    /\ lastReturn = [fn |-> "idle"]

ConstIdle ==
    /\ constTokens = <<>>
    /\ constPhase = "idle"
    /\ constValue = [kind |-> "Null"]

BitsIdle ==
    /\ bitsKind = ""
    /\ bitsS = 0
    /\ bitsB = 0
    /\ bitsPc = "idle"

StrIdle ==
    /\ strCap = 0
    /\ strRhs = [kind |-> "none", len |-> 0]
    /\ strLenByte = 0
    /\ strWritten = {}
    /\ strPc = "idle"

InIdle ==
    /\ inMem = <<>>
    /\ inElems = {}
    /\ inCount = 0
    /\ inX = 0
    /\ inRes = FALSE
    /\ inPc = "idle"

FieldsIdle ==
    /\ fldDecl = <<>>
    /\ fldErrors = {}
    /\ fldResult = <<>>
    /\ fldPc = "idle"

WithIdle ==
    /\ withTargets = <<>>
    /\ withEntry = <<>>
    /\ withStack = <<>>
    /\ withPc = "idle"
    /\ withName = ""
    /\ withFound = 0

BinIdle ==
    /\ binL = ""
    /\ binR = ""
    /\ binOper = ""
    /\ binNDebug = FALSE
    /\ binErrCnt = 0
    /\ binDiag = {}
    /\ binRes = ""
    /\ binPc = "idle"

ConstDefIdle ==
    /\ cdefEnv = <<>>
    /\ cdefCount = 0
    /\ cdefLast = <<>>

TokIdle ==
    /\ lexTokens = <<>>
    /\ lexPos = 0
    /\ curToken = ""
    /\ nextToken = ""
    /\ nextTokenValid = FALSE
    /\ tokHistory = <<>>
    /\ tokCall = [fn |-> "idle"]

SetOpIdle ==
    /\ sopLhs = <<>>
    /\ sopRhs = <<>>
    /\ sopOper = ""
    /\ sopCall = <<>>
    /\ sopPc = "idle"

RangeIdle ==
    /\ rngMem = <<>>
    /\ rngElems = {}
    /\ rngSingles = 0
    /\ rngRanges = 0
    /\ rngLow = 0
    /\ rngHigh = 0
    /\ rngPc = "idle"

(***************************************************************************)
(* Name environment (stack.h: Stack<T>, StackWrapper<T>).                  *)
(***************************************************************************)
NoDef == [name |-> "", kind |-> "none", proto |-> 0]
VarDef(n) == [name |-> n, kind |-> "var", proto |-> 0]
FuncDef(n, p) == [name |-> n, kind |-> "func", proto |-> p]

InLevel(level, n) == \E d \in level : d.name = n

\* Stack::Add: into the top level; fails (returns false) when the name is there
StackCanAdd(stack, n) == ~InLevel(stack[Len(stack)], n)
StackAdd(stack, d) == [stack EXCEPT ![Len(stack)] = @ \cup {d}]

RECURSIVE FindFrom(_, _, _)
FindFrom(stack, n, i) ==
    IF i = 0 THEN NoDef
    ELSE IF InLevel(stack[i], n) THEN CHOOSE d \in stack[i] : d.name = n
    ELSE FindFrom(stack, n, i - 1)

\* Stack::Find: the innermost level that has the name wins
StackFind(stack, n) == FindFrom(stack, n, Len(stack))

\* StackWrapper constructor / destructor
NewLevel(stack) == Append(stack, {})
DropLevel(stack) == SubSeq(stack, 1, Len(stack) - 1)

LevelNames(level) == {d.name : d \in level}

SortedNames(S) == SelectSeq(NameOrder, LAMBDA n : n \in S)

(***************************************************************************)
(* AST pieces.                                                             *)
(***************************************************************************)
ParamList(nargs) == IF nargs = 0 THEN <<>> ELSE <<"a">>

\* the programs parsed declare f with one parameter, a, and any other routine
\* with none
DeclaredArgs(name) == IF name = "f" THEN 1 ELSE 0

\* PrototypeAST: fwd is the forward prototype this one completes (0: none)
NewProto(name, nargs) ==
    [name |-> name, nargs |-> nargs, args |-> ParamList(nargs),
     isForward |-> FALSE, function |-> 0, fwd |-> 0]

NewFrame(pid) ==
    [proto |-> pid, subs |-> <<>>, body |-> <<>>, phase |-> "decl", varDecls |-> FALSE]

Top == frames[Len(frames)]

InDecl == IF frames = <<>> THEN mainPhase = "decl" ELSE Top.phase = "decl"
InBody == IF frames = <<>> THEN mainPhase = "body" ELSE Top.phase = "body"

\* PrototypeAST::AddExtraArgsLast
AddExtraArgsLast(p, extra) == [p EXCEPT !.args = @ \o extra]

\* FunctionAST::SetUsedVars: names used here or captured by a sub-function,
\* less the locals, less the globals
SetUsedVars(varsUsed, subs, localVars, globalVars) ==
    LET nonLocal == varsUsed \cup UNION {{fns[s].usedVars[i] : i \in 1..Len(fns[s].usedVars)} : s \in subs}
    IN  SortedNames((nonLocal \ localVars) \ globalVars)

SeqRange(s) == {s[i] : i \in 1..Len(s)}

\* FunctionAST::accept: the call expressions of the body and, recursively, of
\* the sub-functions
RECURSIVE Visited(_, _, _)
Visited(fs, body, subs) ==
    SeqRange(body) \cup UNION {Visited(fs, fs[s].body, fs[s].subs) : s \in SeqRange(subs)}

\* UpdateCallVisitor::visit on one call expression
UpdateCall(call, ps, proto, used) ==
    IF ps[call.proto].name = proto.name /\ Len(call.args) # Len(proto.args)
    THEN [call EXCEPT !.args = @ \o used]
    ELSE call

(***************************************************************************)
(* Parser::ParseDefinition and the statements it parses.                   *)
(***************************************************************************)
ClosureInit ==
    /\ nameStack = << {} >>
    /\ usedVariables = << {} >>
    /\ frames = <<>>
    /\ protos = <<>>
    /\ fns = <<>>
    /\ calls = <<>>
    /\ mainPhase = "decl"
    /\ errCnt = 0

\* the forward declaration this definition completes, or 0
ForwardOf(name) ==
    LET def == StackFind(nameStack, name)
    IN  IF def.kind = "func" /\ protos[def.proto].isForward THEN def.proto ELSE 0

PushSub(fs, fid) ==
    IF fs = <<>> THEN fs
    ELSE [fs EXCEPT ![Len(fs)].subs = Append(@, fid), ![Len(fs)].varDecls = @]

\* ParseDefinition: 'procedure name(...); forward;'
ParseDefinitionForward(name, nargs) ==
    /\ InDecl
    /\ Len(protos) < MaxProtos
    /\ ForwardOf(name) = 0
    /\ StackCanAdd(nameStack, name)
    /\ LET pid == Len(protos) + 1
           fid == Len(fns) + 1
       IN  /\ protos' = Append(protos, [NewProto(name, nargs) EXCEPT !.isForward = TRUE])
           /\ nameStack' = StackAdd(nameStack, FuncDef(name, pid))
           /\ fns' = Append(fns, [proto |-> pid, body |-> <<>>, subs |-> <<>>,
                                  usedVars |-> <<>>, hasBody |-> FALSE, locals |-> {}])
           /\ frames' = PushSub(frames, fid)
    /\ UNCHANGED <<usedVariables, calls, mainPhase, errCnt>>

\* ParseDefinition: the name is taken in this scope
ParseDefinitionExists(name, nargs) ==
    /\ InDecl
    /\ Len(protos) < MaxProtos
    /\ ForwardOf(name) = 0
    /\ ~StackCanAdd(nameStack, name)
    /\ errCnt < MaxErrors
    /\ protos' = Append(protos, NewProto(name, nargs))
    /\ errCnt' = errCnt + 1
    /\ UNCHANGED <<nameStack, usedVariables, frames, fns, calls, mainPhase>>

\* ParseDefinition up to the declarations: prototype, name, scopes, parameters
ParseDefinitionEnter(name, nargs) ==
    /\ InDecl
    /\ Len(protos) < MaxProtos
    /\ Len(frames) < MaxDepth
    /\ LET fwd == ForwardOf(name)
           pid == Len(protos) + 1
           n == IF fwd # 0 THEN protos[fwd].nargs ELSE nargs
           named == IF fwd # 0 THEN nameStack ELSE StackAdd(nameStack, FuncDef(name, pid))
           pushed == NewLevel(named)
       IN  /\ fwd # 0 => nargs = protos[fwd].nargs
           /\ fwd = 0 => StackCanAdd(nameStack, name)
           /\ protos' = Append(protos, [NewProto(name, n) EXCEPT !.fwd = fwd])
           /\ nameStack' = [pushed EXCEPT ![Len(pushed)] = {VarDef(a) : a \in SeqRange(ParamList(n))}]
           /\ usedVariables' = NewLevel(usedVariables)
           /\ frames' = Append(frames, NewFrame(pid))
    /\ UNCHANGED <<fns, calls, mainPhase, errCnt>>

\* ParseVarDecls: one more name of the var section
ParseVarDecls(v) ==
    /\ InDecl
    /\ StackCanAdd(nameStack, v) \/ errCnt < MaxErrors
    /\ IF StackCanAdd(nameStack, v)
       THEN nameStack' = StackAdd(nameStack, VarDef(v)) /\ errCnt' = errCnt
       ELSE nameStack' = nameStack /\ errCnt' = errCnt + 1
    /\ UNCHANGED <<usedVariables, frames, protos, fns, calls, mainPhase>>

\* ParseBlock: 'begin' of the routine's body, or of the main block
ParseBlock ==
    /\ InDecl
    /\ IF frames = <<>>
       THEN mainPhase' = "body" /\ frames' = frames
       ELSE mainPhase' = mainPhase /\ frames' = [frames EXCEPT ![Len(frames)].phase = "body"]
    /\ UNCHANGED <<nameStack, usedVariables, protos, fns, calls, errCnt>>

\* ParseIdentifierExpr on a variable
ParseIdentifierExpr(v) ==
    /\ InBody
    /\ StackFind(nameStack, v).kind = "var"
    /\ usedVariables' = [usedVariables EXCEPT ![Len(usedVariables)] = @ \cup {v}]
    /\ UNCHANGED <<nameStack, frames, protos, fns, calls, mainPhase, errCnt>>

\* ParseIdentifierExpr on a routine name: ParseArgs, then MakeCallExpr
MakeCallExpr(name) ==
    /\ InBody
    /\ Len(calls) < MaxCalls
    /\ LET def == StackFind(nameStack, name)
       IN  /\ def.kind = "func"
           /\ LET proto == protos[def.proto]
                  args == [i \in 1..proto.nargs |-> "expr"]
                  extra == IF proto.function # 0 THEN fns[proto.function].usedVars ELSE <<>>
                  cid == Len(calls) + 1
              IN  /\ calls' = Append(calls, [proto |-> def.proto, callee |-> name,
                                             args |-> args \o extra, depth |-> Len(frames)])
                  /\ frames' = IF frames = <<>> THEN frames
                               ELSE [frames EXCEPT ![Len(frames)].body = Append(@, cid)]
    /\ UNCHANGED <<nameStack, usedVariables, protos, fns, mainPhase, errCnt>>

\* ParseDefinition, case Token::Begin, after the body: the FunctionAST, its
\* captured variables, the longer prototype, the rewrite of the calls
ParseDefinitionClose ==
    /\ frames # <<>>
    /\ Top.phase = "body"
    /\ LET pid == Top.proto
           fid == Len(fns) + 1
           used == SetUsedVars(usedVariables[Len(usedVariables)], SeqRange(Top.subs),
                               LevelNames(nameStack[Len(nameStack)]),
                               LevelNames(nameStack[1]))
           fn == [proto |-> pid, body |-> Top.body, subs |-> Top.subs,
                  usedVars |-> used, hasBody |-> TRUE,
                  locals |-> LevelNames(nameStack[Len(nameStack)])]
           proto == AddExtraArgsLast([protos[pid] EXCEPT !.function = fid], used)
           seen == Visited(fns, Top.body, Top.subs)
       IN  /\ fns' = Append(fns, fn)
           /\ protos' = [protos EXCEPT ![pid] = proto]
           /\ calls' = [c \in DOMAIN calls |->
                           IF c \in seen THEN UpdateCall(calls[c], protos, proto, used)
                           ELSE calls[c]]
           /\ frames' = PushSub(SubSeq(frames, 1, Len(frames) - 1), fid)
    /\ nameStack' = DropLevel(nameStack)
    /\ usedVariables' = DropLevel(usedVariables)
    /\ UNCHANGED <<mainPhase, errCnt>>

\* Parser::Parse: the main block ends, 'end.'
ParseMainEnd ==
    /\ frames = <<>>
    /\ mainPhase = "body"
    /\ mainPhase' = "done"
    /\ UNCHANGED <<nameStack, usedVariables, frames, protos, fns, calls, errCnt>>

ClosureNext ==
    \/ \E name \in FuncNames : ParseDefinitionForward(name, DeclaredArgs(name))
    \/ \E name \in FuncNames : ParseDefinitionExists(name, DeclaredArgs(name))
    \/ \E name \in FuncNames : ParseDefinitionEnter(name, DeclaredArgs(name))
    \/ \E v \in VarNames : ParseVarDecls(v)
    \/ ParseBlock
    \/ \E v \in VarNames \cup {"a"} : ParseIdentifierExpr(v)
    \/ \E name \in FuncNames : MakeCallExpr(name)
    \/ ParseDefinitionClose
    \/ ParseMainEnd

TypeDefIdle ==
    /\ typeEnv = {}
    /\ pointerDecls = <<>>
    /\ incomplete = <<>>
    /\ tdPhase = "idle"
    /\ tdErrors = {}

Null == [kind |-> "Null"]

TypesIdle ==
    /\ tyThis = Null
    /\ tyArg = Null
    /\ tyOp = "idle"
    /\ tyRes = Null

ClosureStep == ClosureNext /\ UNCHANGED exceptClosure

InitClosure ==
    ClosureInit /\ TypeDefIdle /\ TypesIdle /\ VariantIdle /\ ForIdle /\ SetIdle /\ ClassIdle /\ ScopeIdle /\ ConstIdle /\ BitsIdle /\ StrIdle /\ InIdle /\ FieldsIdle /\ WithIdle /\ BinIdle /\ ConstDefIdle /\ TokIdle /\ SetOpIdle /\ RangeIdle

SpecClosure == InitClosure /\ [][ClosureStep]_vars

\* the routine a call expression calls: the definition of the prototype the
\* call holds, or the definition that completed that forward prototype
IsCallee(c, fid) ==
    /\ fns[fid].hasBody
    /\ \/ fns[fid].proto = calls[c].proto
       \/ protos[fns[fid].proto].fwd = calls[c].proto

MaxTypeDecls == 3

TypeNames == {"T", "U"}
\* what stands right of 'name =': ^Ident, a record with a field of type
\* ^Ident, an array of ^Ident, or a type that holds no pointer
TypeShapes == {"pointer", "record", "array", "plain"}

ClosureIdle ==
    /\ nameStack = <<>>
    /\ usedVariables = <<>>
    /\ frames = <<>>
    /\ protos = <<>>
    /\ fns = <<>>
    /\ calls = <<>>
    /\ mainPhase = "idle"
    /\ errCnt = 0

TypeDefInit ==
    /\ typeEnv \in SUBSET TypeNames
    /\ pointerDecls = <<>>
    /\ incomplete = <<>>
    /\ tdPhase = "parsing"
    /\ tdErrors = {}

\* Parser::GetTypeDecl
GetTypeDecl(env, name) == name \in env

\* Parser::ParsePointerType on '^Ident': a pointer to the known type, or a
\* pointer that holds the name
ParsePointerType(env, ident, decl, nested) ==
    [name |-> ident, isIncomplete |-> ~GetTypeDecl(env, ident),
     decl |-> decl, nested |-> nested]

\* the top-level type's Type() is PointerIncomplete
IsPointerIncomplete(shape, env, ident) == shape = "pointer" /\ ~GetTypeDecl(env, ident)

\* ParseTypeDef: one 'name = type ;' of the block
ParseTypeDefDecl(nm, shape, ident) ==
    /\ tdPhase = "parsing"
    /\ Len(pointerDecls) < MaxTypeDecls
    /\ LET p == ParsePointerType(typeEnv, ident, nm, shape # "pointer")
           pid == Len(pointerDecls) + 1
       IN  /\ pointerDecls' = IF shape = "plain" THEN pointerDecls ELSE Append(pointerDecls, p)
           /\ incomplete' = IF IsPointerIncomplete(shape, typeEnv, ident)
                            THEN Append(incomplete, pid) ELSE incomplete
    /\ tdErrors' = IF nm \in typeEnv THEN tdErrors \cup {"name in use"} ELSE tdErrors
    /\ typeEnv' = typeEnv \cup {nm}
    /\ tdPhase' = tdPhase
    /\ UNCHANGED exceptTypeDef

\* ParseTypeDef: a declaration of the block does not parse; the function
\* returns at once
ParseTypeDefAbort ==
    /\ tdPhase = "parsing"
    /\ tdPhase' = "aborted"
    /\ tdErrors' = tdErrors \cup {"syntax"}
    /\ UNCHANGED <<typeEnv, pointerDecls, incomplete>>
    /\ UNCHANGED exceptTypeDef

\* the fix-up loop: stops at the first name that is still not a type
RECURSIVE FixUp(_, _, _, _)
FixUp(ptrs, todo, env, i) ==
    IF i > Len(todo) THEN [ptrs |-> ptrs, ok |-> TRUE]
    ELSE IF GetTypeDecl(env, ptrs[todo[i]].name)
         THEN FixUp([ptrs EXCEPT ![todo[i]].isIncomplete = FALSE], todo, env, i + 1)
         ELSE [ptrs |-> ptrs, ok |-> FALSE]

\* ParseTypeDef: the block ends; fix up the incomplete pointers
ParseTypeDefFixUp ==
    /\ tdPhase = "parsing"
    /\ LET r == FixUp(pointerDecls, incomplete, typeEnv, 1)
       IN  /\ pointerDecls' = r.ptrs
           /\ tdErrors' = IF r.ok THEN tdErrors ELSE tdErrors \cup {"forward pointer"}
    /\ tdPhase' = "done"
    /\ UNCHANGED <<typeEnv, incomplete>>
    /\ UNCHANGED exceptTypeDef

TypeDefNext ==
    \/ \E nm \in TypeNames, shape \in TypeShapes, ident \in TypeNames :
           ParseTypeDefDecl(nm, shape, ident)
    \/ ParseTypeDefAbort
    \/ ParseTypeDefFixUp

InitTypeDef ==
    ClosureIdle /\ TypeDefInit /\ TypesIdle /\ VariantIdle /\ ForIdle /\ SetIdle /\ ClassIdle /\ ScopeIdle /\ ConstIdle /\ BitsIdle /\ StrIdle /\ InIdle /\ FieldsIdle /\ WithIdle /\ BinIdle /\ ConstDefIdle /\ TokIdle /\ SetOpIdle /\ RangeIdle

SpecTypeDef == InitTypeDef /\ [][TypeDefNext]_vars

\* C2: once ParseTypeDef has parsed a type block to its end, no pointer type
\* created in the block from ^Ident still holds an unresolved name, whether
\* it is the declared type or nested in it, unless the unresolved-forward-
\* pointer error was reported
C2_NoUnresolvedPointerAfterBlock ==
    (tdPhase = "done" /\ "forward pointer" \notin tdErrors) =>
        \A p \in DOMAIN pointerDecls : ~pointerDecls[p].isIncomplete

(***************************************************************************)
(* The type registry: the type values and the relations SameAs,            *)
(* CompatibleType and AssignableType (types.cpp).                          *)
(***************************************************************************)
MaxStrLen == 3
MaxRangeEnd == 2

NoMatch == [kind |-> "NoMatch"]
\* the call dereferenced a null pointer and the process died
Crash == [kind |-> "Crash"]

BasicKinds == {"Integer", "Int64", "Real", "Char", "Boolean"}
BasicDecl(k) == [kind |-> k]
IntegerT == BasicDecl("Integer")
Int64T == BasicDecl("Int64")
RealT == BasicDecl("Real")
CharT == BasicDecl("Char")
BoolT == BasicDecl("Boolean")

RangeDecl(base, start, end) == [kind |-> "Range", base |-> base, start |-> start, end |-> end]
EnumDecl(values) == [kind |-> "Enum", values |-> values]
ArrayDecl(sub, ranges) == [kind |-> "Array", sub |-> sub, ranges |-> ranges]
StringDecl(size) == [kind |-> "String", sub |-> CharT, ranges |-> <<RangeDecl("Integer", 0, size)>>]
SetDecl(range, sub) == [kind |-> "Set", range |-> range, sub |-> sub]
RecordDecl(id) == [kind |-> "Record", id |-> id]
ClassDecl(id, baseobj) == [kind |-> "Class", id |-> id, baseobj |-> baseobj]

\* TypeDecl::Type(): a subrange answers with the kind of its base
TypeOf(t) == IF t.kind = "Range" THEN t.base ELSE t.kind

\* Range::Size
RangeSize(r) == r.end - r.start + 1

\* CompoundDecl::classof
IsCompound(t) == t.kind \in {"Array", "String", "Pointer", "Field", "FuncPtr", "File", "Text", "Set"}
\* ArrayDecl::classof
IsArrayDecl(t) == t.kind \in {"Array", "String"}

RECURSIVE SameAs(_, _)

\* BasicTypeDecl::SameAs
BasicSameAs(this, ty) == this.kind = TypeOf(ty)

\* CompoundDecl::SameAs
CompoundSameAs(this, ty) ==
    /\ TypeOf(this) = TypeOf(ty)
    /\ IsCompound(ty)
    /\ SameAs(ty.sub, this.sub)

\* operator==(const Range&, const Range&)
RangeEq(a, b) == a.start = b.start /\ a.end = b.end

\* RangeDecl::SameAs
RangeSameAs(this, ty) ==
    IF ty.kind = "Range" THEN TypeOf(ty) = TypeOf(this) /\ RangeEq(this, ty)
    ELSE TypeOf(this) = TypeOf(ty)

\* EnumDecl::SameAs
EnumSameAs(this, ty) ==
    /\ ty.kind = "Enum"
    /\ TypeOf(ty) = TypeOf(this)
    /\ Len(this.values) = Len(ty.values)
    /\ \A i \in 1..Len(this.values) : this.values[i] = ty.values[i]

\* ArrayDecl::SameAs
ArraySameAs(this, ty) ==
    /\ CompoundSameAs(this, ty)
    /\ IsArrayDecl(ty)
    /\ Len(this.ranges) = Len(ty.ranges)
    /\ \A i \in 1..Len(this.ranges) : SameAs(this.ranges[i], ty.ranges[i])

\* SetDecl::SameAs
SetSameAs(this, ty) ==
    /\ CompoundSameAs(this, ty)
    /\ ty.kind = "Set"
    /\ ty.range # Null
    /\ SameAs(this.range, ty.range)

\* RecordDecl::SameAs, ClassDecl::SameAs: this == ty
IdentitySameAs(this, ty) == this = ty

\* the virtual SameAs
SameAs(this, ty) ==
    CASE this.kind \in BasicKinds -> BasicSameAs(this, ty)
      [] this.kind = "Range" -> RangeSameAs(this, ty)
      [] this.kind = "Enum" -> EnumSameAs(this, ty)
      [] this.kind \in {"Array", "String"} -> ArraySameAs(this, ty)
      [] this.kind = "Set" -> SetSameAs(this, ty)
      [] this.kind \in {"Record", "Class"} -> IdentitySameAs(this, ty)
      [] OTHER -> FALSE

\* TypeDecl::CompatibleType
TypeDeclCompatibleType(this, ty) == IF SameAs(this, ty) THEN this ELSE NoMatch

\* CharDecl::CompatibleType
CharCompatibleType(this, ty) ==
    IF SameAs(this, ty) THEN this
    ELSE IF TypeOf(ty) = "String" THEN ty
    ELSE NoMatch

\* IntegerDecl::CompatibleType
IntegerCompatibleType(this, ty) ==
    IF TypeOf(ty) = "Integer" THEN this
    ELSE IF TypeOf(ty) = "Int64" \/ TypeOf(ty) = "Real" THEN ty
    ELSE NoMatch

\* IntegerDecl::AssignableType
IntegerAssignableType(this, ty) == IF SameAs(this, ty) THEN ty ELSE NoMatch

\* Int64Decl::CompatibleType
Int64CompatibleType(this, ty) ==
    IF TypeOf(ty) = "Int64" \/ TypeOf(ty) = "Integer" THEN this
    ELSE IF TypeOf(ty) = "Real" THEN ty
    ELSE NoMatch

\* Int64Decl::AssignableType written as Int64Decl::CompatibleType is: a Real
\* argument is let through
Int64AssignableType_AcceptsReal(this, ty) ==
    IF SameAs(this, ty) \/ TypeOf(ty) = "Integer" THEN this
    ELSE IF TypeOf(ty) = "Real" THEN ty
    ELSE NoMatch

\* Int64Decl::AssignableType
Int64AssignableType(this, ty) ==
    IF SameAs(this, ty) \/ TypeOf(ty) = "Integer" THEN this ELSE NoMatch

\* RealDecl::CompatibleType
RealCompatibleType(this, ty) ==
    IF SameAs(this, ty) \/ TypeOf(ty) = "Int64" \/ TypeOf(ty) = "Integer" THEN this
    ELSE NoMatch

\* RealDecl::AssignableType
RealAssignableType(this, ty) ==
    IF SameAs(this, ty) \/ TypeOf(ty) = "Integer" \/ TypeOf(ty) = "Int64" THEN this
    ELSE NoMatch

\* ArrayDecl::CompatibleType
ArrayCompatibleType(this, ty) ==
    IF SameAs(this, ty) THEN this
    ELSE IF /\ ty.kind = "Array"
            /\ ty.sub = this.sub
            /\ Len(this.ranges) = Len(ty.ranges)
            /\ \E i \in 1..Len(this.ranges) : RangeSize(this.ranges[i]) # RangeSize(ty.ranges[i])
         THEN NoMatch
    ELSE this

\* RangeDecl::CompatibleType
RangeCompatibleType(this, ty) ==
    IF SameAs(this, ty) THEN this
    ELSE IF TypeOf(ty) = TypeOf(this) THEN ty
    ELSE NoMatch

\* RangeDecl::AssignableType
RangeAssignableType(this, ty) ==
    IF SameAs(this, ty) \/ TypeOf(ty) = TypeOf(this) THEN ty ELSE NoMatch

\* SetDecl::CompatibleType dereferences baseType of both sets
SetCompatibleDerefsNull(this, ty) == ty.kind = "Set" /\ (this.sub = Null \/ ty.sub = Null)

\* SetDecl::CompatibleType
SetCompatibleType(this, ty) ==
    IF ty.kind = "Set" /\ ~SameAs(this.sub, ty.sub) THEN NoMatch ELSE ty

\* StringDecl::CompatibleType with the comparison of the two capacities turned
StringCompatibleType_Smaller(this, ty) ==
    IF SameAs(this, ty) \/ TypeOf(ty) = "Char" THEN this
    ELSE IF TypeOf(ty) = "String"
         THEN IF ty.ranges[1].end < this.ranges[1].end THEN ty ELSE this
    ELSE IF TypeOf(ty) = "Array"
         THEN IF Len(ty.ranges) # 1 THEN NoMatch ELSE this
    ELSE NoMatch

\* StringDecl::CompatibleType
StringCompatibleType(this, ty) ==
    IF SameAs(this, ty) \/ TypeOf(ty) = "Char" THEN this
    ELSE IF TypeOf(ty) = "String"
         THEN IF ty.ranges[1].end > this.ranges[1].end THEN ty ELSE this
    ELSE IF TypeOf(ty) = "Array"
         THEN IF Len(ty.ranges) # 1 THEN NoMatch ELSE this
    ELSE NoMatch

\* a CompatibleType that does not follow the base links
ClassCompatibleType_SameOnly(this, ty) ==
    IF SameAs(ty, this) THEN this ELSE NoMatch

\* ClassDecl::CompatibleType
RECURSIVE ClassCompatibleType(_, _)
ClassCompatibleType(this, ty) ==
    IF SameAs(ty, this) THEN this
    ELSE IF ty.kind = "Class"
         THEN IF ty.baseobj # Null THEN ClassCompatibleType(this, ty.baseobj) ELSE NoMatch
    ELSE NoMatch

\* the virtual CompatibleType
CompatibleType(this, ty) ==
    CASE this.kind = "Char" -> CharCompatibleType(this, ty)
      [] this.kind = "Integer" -> IntegerCompatibleType(this, ty)
      [] this.kind = "Int64" -> Int64CompatibleType(this, ty)
      [] this.kind = "Real" -> RealCompatibleType(this, ty)
      [] this.kind = "Range" -> RangeCompatibleType(this, ty)
      [] this.kind = "Array" -> ArrayCompatibleType(this, ty)
      [] this.kind = "String" -> StringCompatibleType(this, ty)
      [] this.kind = "Set" -> SetCompatibleType(this, ty)
      [] this.kind = "Class" -> ClassCompatibleType(this, ty)
      [] OTHER -> TypeDeclCompatibleType(this, ty)

\* TypeDecl::AssignableType
TypeDeclAssignableType(this, ty) == CompatibleType(this, ty)

\* the virtual AssignableType
AssignableType(this, ty) ==
    CASE this.kind = "Integer" -> IntegerAssignableType(this, ty)
      [] this.kind = "Int64" -> Int64AssignableType(this, ty)
      [] this.kind = "Real" -> RealAssignableType(this, ty)
      [] this.kind = "Range" -> RangeAssignableType(this, ty)
      [] OTHER -> TypeDeclAssignableType(this, ty)

\* what a call can do: its result, or anything once it has read through a
\* null pointer
CallOutcomes(this, ty, result) ==
    IF this.kind = "Set" /\ SetCompatibleDerefsNull(this, ty)
    THEN {Crash, NoMatch, ty}
    ELSE {result}

(***************************************************************************)
(* The types the parser can construct, over small ranges and lengths.      *)
(***************************************************************************)
BasicTypes == {BasicDecl(k) : k \in BasicKinds}
\* Parser::ParseRange makes no range whose end is not above its start
IntRanges ==
    {RangeDecl("Integer", r[1], r[2]) :
        r \in {q \in (0..1) \X (1..MaxRangeEnd) : q[1] < q[2]}}
RangeTypes == IntRanges \cup {RangeDecl("Char", 65, 66)}
EnumTypes == {EnumDecl(<<"Red", "Green">>), EnumDecl(<<"Red", "Green", "Blue">>)}
ArrayTypes ==
    {ArrayDecl(IntegerT, <<r>>) : r \in IntRanges}
        \cup {ArrayDecl(RealT, <<RangeDecl("Integer", 0, 1)>>),
              ArrayDecl(IntegerT, <<RangeDecl("Integer", 0, 1), RangeDecl("Integer", 0, 1)>>)}
StringTypes == {StringDecl(n) : n \in 1..MaxStrLen}
\* a declared set; the type ParseSetExpr gives a set literal with elements;
\* the type it gives the literal []
SetTypes ==
    {SetDecl(RangeDecl("Integer", 0, MaxRangeEnd), IntegerT),
     SetDecl(Null, IntegerT),
     SetDecl(Null, Null)}
RecordTypes == {RecordDecl(1), RecordDecl(2)}
ClassA == ClassDecl(1, Null)
ClassB == ClassDecl(2, ClassA)
ClassC == ClassDecl(3, ClassB)
ClassTypes == {ClassA, ClassB, ClassC, ClassDecl(4, Null)}

TypeUniverse ==
    BasicTypes \cup RangeTypes \cup EnumTypes \cup ArrayTypes \cup StringTypes
        \cup SetTypes \cup RecordTypes \cup ClassTypes

TypesInit ==
    /\ tyThis \in TypeUniverse
    /\ tyArg \in TypeUniverse
    /\ tyOp = "none"
    /\ tyRes = Null

\* this->CompatibleType(arg)
CallCompatibleType ==
    /\ tyOp = "none"
    /\ tyOp' = "compatible"
    /\ tyRes' \in CallOutcomes(tyThis, tyArg, CompatibleType(tyThis, tyArg))
    /\ UNCHANGED <<tyThis, tyArg>>
    /\ UNCHANGED exceptTypes

\* this->AssignableType(arg)
CallAssignableType ==
    /\ tyOp = "none"
    /\ tyOp' = "assignable"
    /\ tyRes' \in CallOutcomes(tyThis, tyArg, AssignableType(tyThis, tyArg))
    /\ UNCHANGED <<tyThis, tyArg>>
    /\ UNCHANGED exceptTypes

TypesNext == CallCompatibleType \/ CallAssignableType

InitTypes ==
    ClosureIdle /\ TypeDefIdle /\ TypesInit /\ VariantIdle /\ ForIdle /\ SetIdle /\ ClassIdle /\ ScopeIdle /\ ConstIdle /\ BitsIdle /\ StrIdle /\ InIdle /\ FieldsIdle /\ WithIdle /\ BinIdle /\ ConstDefIdle /\ TokIdle /\ SetOpIdle /\ RangeIdle

SpecTypes == InitTypes /\ [][TypesNext]_vars

\* C3: for every type T the registry constructs, T.CompatibleType(T) and
\* T.AssignableType(T) return a type, not 'no match'
C3_RelationsReflexive ==
    (tyOp \in {"compatible", "assignable"} /\ tyThis = tyArg) =>
        tyRes \in TypeUniverse

NumericTypes == {IntegerT, Int64T, RealT}

\* C4: with dst.AssignableType(src): Int64 accepts Integer, Real accepts
\* Integer and Int64, and there is no reverse direction: Integer accepts
\* neither Int64 nor Real, Int64 does not accept Real
C4_NumericAssignability ==
    (tyOp = "assignable" /\ tyThis \in NumericTypes /\ tyArg \in NumericTypes) =>
        /\ <<tyThis, tyArg>> \in {<<Int64T, IntegerT>>, <<RealT, IntegerT>>, <<RealT, Int64T>>}
              => tyRes = tyThis
        /\ <<tyThis, tyArg>> \in {<<IntegerT, Int64T>>, <<IntegerT, RealT>>, <<Int64T, RealT>>}
              => tyRes = NoMatch

\* Int64.AssignableType(Real) was called and refused
C4_Witness ==
    tyOp = "assignable" /\ tyThis = Int64T /\ tyArg = RealT /\ tyRes = NoMatch

\* Integer < Int64 < Real
NumericRank(t) == CASE t = IntegerT -> 1 [] t = Int64T -> 2 [] t = RealT -> 3
Wider(a, b) == IF NumericRank(a) >= NumericRank(b) THEN a ELSE b
Capacity(str) == str.ranges[1].end

\* C5: CompatibleType returns the wider of two numeric types, the String type
\* for Char and String, and the String of larger capacity for two Strings,
\* in either order of the two
C5_CompatibleWidening ==
    tyOp = "compatible" =>
        /\ (tyThis \in NumericTypes /\ tyArg \in NumericTypes) => tyRes = Wider(tyThis, tyArg)
        /\ (tyThis = CharT /\ tyArg \in StringTypes) => tyRes = tyArg
        /\ (tyThis \in StringTypes /\ tyArg = CharT) => tyRes = tyThis
        /\ (tyThis \in StringTypes /\ tyArg \in StringTypes) =>
              /\ tyRes \in {tyThis, tyArg}
              /\ Capacity(tyRes) >= Capacity(tyThis)
              /\ Capacity(tyRes) >= Capacity(tyArg)

\* a String was asked about a String of larger capacity and returned it
C5_Witness ==
    /\ tyOp = "compatible"
    /\ tyThis \in StringTypes
    /\ tyArg \in StringTypes
    /\ Capacity(tyArg) > Capacity(tyThis)
    /\ tyRes = tyArg

(***************************************************************************)
(* The layout of a variant and of the record that holds it                 *)
(* (VariantDecl::GetLlvmType, RecordDecl::GetLlvmType).  An arm is the     *)
(* allocation size and the preferred alignment the data layout gives its   *)
(* type; an arm can also be a pointer whose pointee is not yet known.      *)
(***************************************************************************)
MaxArms == 3
MaxArmSize == 4
Aligns == {1, 2, 4}

Arm(sz, al) == [size |-> sz, align |-> al, incomplete |-> FALSE]
IncompleteArm == [size |-> 0, align |-> 0, incomplete |-> TRUE]
Arms == {Arm(sz, al) : sz \in 1..MaxArmSize, al \in Aligns} \cup {IncompleteArm}

SeqsUpTo(S, n) == UNION {[1..k -> S] : k \in 0..n}

NoType == [state |-> "none", members |-> <<>>]
OpaqueType == [state |-> "opaque", members |-> <<>>]
\* llvm::StructType::create(fv), each member by its byte count
StructType(fv) == [state |-> "struct", members |-> fv]

RECURSIVE SumSeq(_)
SumSeq(q) == IF q = <<>> THEN 0 ELSE Head(q) + SumSeq(Tail(q))

VariantInit ==
    /\ variantFields \in SeqsUpTo(Arms, MaxArms) \ {<<>>}
    /\ elt = 0
    /\ maxSize = 0
    /\ maxSizeElt = 0
    /\ maxAlign = 0
    /\ maxAlignElt = 0
    /\ maxAlignSize = 0
    /\ variantType = NoType
    /\ recordFields \in {<<>>, <<MaxArmSize, 1>>}
    /\ recordVariant \in BOOLEAN
    /\ recordType = NoType

\* VariantDecl::GetLlvmType, the loop at an arm that is an incomplete pointer
VariantLoopIncomplete ==
    /\ variantType = NoType
    /\ elt < Len(variantFields)
    /\ variantFields[elt + 1].incomplete
    /\ variantType' = OpaqueType
    /\ UNCHANGED <<variantFields, elt, maxSize, maxSizeElt, maxAlign, maxAlignElt,
                   maxAlignSize, recordFields, recordVariant, recordType>>
    /\ UNCHANGED exceptVariant

\* a turn of the loop that lets the first arm of an alignment keep the anchor
VariantLoopBody_NoTieBreak ==
    /\ variantType = NoType
    /\ elt < Len(variantFields)
    /\ ~variantFields[elt + 1].incomplete
    /\ LET sz == variantFields[elt + 1].size
           al == variantFields[elt + 1].align
           bigger == sz > maxSize
           anchor == al > maxAlign
       IN  /\ maxSize' = IF bigger THEN sz ELSE maxSize
           /\ maxSizeElt' = IF bigger THEN elt ELSE maxSizeElt
           /\ maxAlign' = IF anchor THEN al ELSE maxAlign
           /\ maxAlignSize' = IF anchor THEN sz ELSE maxAlignSize
           /\ maxAlignElt' = IF anchor THEN elt ELSE maxAlignElt
    /\ elt' = elt + 1
    /\ UNCHANGED <<variantFields, variantType, recordFields, recordVariant, recordType>>
    /\ UNCHANGED exceptVariant

\* VariantDecl::GetLlvmType, one turn of the loop over the arms
VariantLoopBody ==
    /\ variantType = NoType
    /\ elt < Len(variantFields)
    /\ ~variantFields[elt + 1].incomplete
    /\ LET sz == variantFields[elt + 1].size
           al == variantFields[elt + 1].align
           bigger == sz > maxSize
           anchor == al > maxAlign \/ (al = maxAlign /\ sz > maxAlignSize)
       IN  /\ maxSize' = IF bigger THEN sz ELSE maxSize
           /\ maxSizeElt' = IF bigger THEN elt ELSE maxSizeElt
           /\ maxAlign' = IF anchor THEN al ELSE maxAlign
           /\ maxAlignSize' = IF anchor THEN sz ELSE maxAlignSize
           /\ maxAlignElt' = IF anchor THEN elt ELSE maxAlignElt
    /\ elt' = elt + 1
    /\ UNCHANGED <<variantFields, variantType, recordFields, recordVariant, recordType>>
    /\ UNCHANGED exceptVariant

\* VariantDecl::GetLlvmType after the loop, with the padding array never added
VariantEmit_NoPadding ==
    /\ variantType = NoType
    /\ elt = Len(variantFields)
    /\ variantType' = StructType(<<variantFields[maxAlignElt + 1].size>>)
    /\ UNCHANGED <<variantFields, elt, maxSize, maxSizeElt, maxAlign, maxAlignElt,
                   maxAlignSize, recordFields, recordVariant, recordType>>
    /\ UNCHANGED exceptVariant

\* VariantDecl::GetLlvmType after the loop: the anchor and the padding
VariantEmit ==
    /\ variantType = NoType
    /\ elt = Len(variantFields)
    /\ LET ty == variantFields[maxAlignElt + 1].size
           nelems == maxSize - maxAlignSize
       IN  variantType' = IF maxAlignElt # maxSizeElt
                          THEN StructType(<<ty, nelems>>)
                          ELSE StructType(<<ty>>)
    /\ UNCHANGED <<variantFields, elt, maxSize, maxSizeElt, maxAlign, maxAlignElt,
                   maxAlignSize, recordFields, recordVariant, recordType>>
    /\ UNCHANGED exceptVariant

\* variant->LlvmType() as a member: its byte count, unknown while opaque
VariantBytes == IF variantType.state = "struct" THEN SumSeq(variantType.members) ELSE 0

\* RecordDecl::GetLlvmType of a record whose own fields hold no pointer
RecordGetLlvmType ==
    /\ recordType = NoType
    /\ recordVariant => variantType # NoType
    /\ LET fv == IF recordVariant THEN Append(recordFields, VariantBytes)
                 ELSE recordFields
       IN  recordType' = IF fv = <<>> THEN StructType(<<1>>) ELSE StructType(fv)
    /\ UNCHANGED <<variantFields, elt, maxSize, maxSizeElt, maxAlign, maxAlignElt,
                   maxAlignSize, variantType, recordFields, recordVariant>>
    /\ UNCHANGED exceptVariant

VariantNext ==
    \/ VariantLoopIncomplete
    \/ VariantLoopBody
    \/ VariantEmit
    \/ RecordGetLlvmType

InitVariant ==
    ClosureIdle /\ TypeDefIdle /\ TypesIdle /\ VariantInit /\ ForIdle /\ SetIdle /\ ClassIdle /\ ScopeIdle /\ ConstIdle /\ BitsIdle /\ StrIdle /\ InIdle /\ FieldsIdle /\ WithIdle /\ BinIdle /\ ConstDefIdle /\ TokIdle /\ SetOpIdle /\ RangeIdle

SpecVariant == InitVariant /\ [][VariantNext]_vars

\* C6: the struct VariantDecl::GetLlvmType emits (the anchor arm and the
\* padding array, when there is one) counts at least as many bytes as every
\* arm of the variant, and so does the record that holds the variant
C6_VariantHoldsEveryArm ==
    /\ variantType.state = "struct" =>
          \A i \in DOMAIN variantFields :
              SumSeq(variantType.members) >= variantFields[i].size
    /\ (recordType.state = "struct" /\ recordVariant /\ variantType.state = "struct") =>
          \A i \in DOMAIN variantFields :
              SumSeq(recordType.members) >= variantFields[i].size

\* a variant whose anchor is not its largest arm was laid out with padding,
\* and the record that holds it was laid out too
C6_Witness ==
    /\ variantType.state = "struct"
    /\ Len(variantType.members) = 2
    /\ variantType.members[2] > 0
    /\ recordVariant
    /\ recordType.state = "struct"

(***************************************************************************)
(* The code ForExprAST::CodeGen emits, as it executes.  Integers are       *)
(* IntBits wide and the add of the step wraps, as the IR add does.         *)
(***************************************************************************)
IntBits == 4
MinInt == -(2 ^ (IntBits - 1))
MaxInt == 2 ^ (IntBits - 1) - 1
Ints == MinInt..MaxInt
\* the counter of body runs stays here: a loop that runs its body more often
\* than there are integers never leaves
MaxBody == 2 ^ IntBits + 1

WrapInt(x) == ((x - MinInt) % (2 ^ IntBits)) + MinInt

\* CreateICmpSGE / CreateICmpSLE with the operands exchanged for a strict test
LoopCond_Strict(cur, e, down) == IF down THEN cur > e ELSE cur < e

\* CreateICmpSGE(curVar, endV) for downto, CreateICmpSLE(curVar, endV) for to
LoopCond(cur, e, down) == IF down THEN cur >= e ELSE cur <= e

\* MakeConstant((stepDown)?-1:1, ...)
StepVal(down) == IF down THEN -1 ELSE 1

ForInit ==
    /\ forStart \in Ints
    /\ endMem \in Ints
    /\ stepDown \in BOOLEAN
    /\ forPc = "entry"
    /\ loopVar = 0
    /\ endV = 0
    /\ bodyCount = 0
    /\ endEvals = 0
    /\ overflowed = FALSE

\* the block before the loop: store start, load, evaluate end, branch
ForEntry ==
    /\ forPc = "entry"
    /\ loopVar' = forStart
    /\ endV' = endMem
    /\ endEvals' = endEvals + 1
    /\ forPc' = IF LoopCond(forStart, endMem, stepDown) THEN "loop" ELSE "afterloop"
    /\ UNCHANGED <<forStart, stepDown, endMem, bodyCount, overflowed>>
    /\ UNCHANGED exceptFor

\* loopBB: the body, which leaves the loop variable alone and may assign the
\* variable the end expression reads
ForBody ==
    /\ forPc = "loop"
    /\ bodyCount' = IF bodyCount < MaxBody THEN bodyCount + 1 ELSE bodyCount
    /\ endMem' \in {endMem, 0}
    /\ forPc' = "latch"
    /\ UNCHANGED <<forStart, stepDown, loopVar, endV, endEvals, overflowed>>
    /\ UNCHANGED exceptFor

\* loopBB after the body: load, add the step, store, compare with endV, branch
ForLatch ==
    /\ forPc = "latch"
    /\ LET nextvar == WrapInt(loopVar + StepVal(stepDown))
       IN  /\ loopVar' = nextvar
           /\ overflowed' = (overflowed \/ nextvar # loopVar + StepVal(stepDown))
           /\ forPc' = IF LoopCond(nextvar, endV, stepDown) THEN "loop" ELSE "afterloop"
    /\ UNCHANGED <<forStart, stepDown, endMem, endV, bodyCount, endEvals>>
    /\ UNCHANGED exceptFor

ForNext == ForEntry \/ ForBody \/ ForLatch

InitFor ==
    ClosureIdle /\ TypeDefIdle /\ TypesIdle /\ VariantIdle /\ ForInit /\ SetIdle /\ ClassIdle /\ ScopeIdle /\ ConstIdle /\ BitsIdle /\ StrIdle /\ InIdle /\ FieldsIdle /\ WithIdle /\ BinIdle /\ ConstDefIdle /\ TokIdle /\ SetOpIdle /\ RangeIdle

SpecFor == InitFor /\ [][ForNext]_vars

Max0(x) == IF x > 0 THEN x ELSE 0

\* C7: when the loop is left and no add wrapped, the body ran
\* max(0, end - start + 1) times for 'to' and max(0, start - end + 1) times
\* for 'downto', end being the value of the end expression on entry, and the
\* end expression was evaluated once
C7_ForIterationCount ==
    (forPc = "afterloop" /\ ~overflowed) =>
        /\ endEvals = 1
        /\ bodyCount = IF stepDown THEN Max0(forStart - endV + 1)
                       ELSE Max0(endV - forStart + 1)

\* 'for i := 5 downto 5' was left after one run of the body
C7_Witness ==
    /\ forPc = "afterloop"
    /\ stepDown
    /\ forStart = 5
    /\ endV = 5
    /\ bodyCount = 1
    /\ ~overflowed

(***************************************************************************)
(* Parsing the type 'set of c1 .. c2' (Parser::ParseSetDecl,               *)
(* Parser::ParseRangeOrTypeRange, Parser::ParseRange,                      *)
(* Parser::ParseConstantValue), the tokens 'set' and 'of' being read.      *)
(***************************************************************************)
MaxConst == 2

Unknown == "Unknown"
Token(tt, v) == [tt |-> tt, val |-> v]
ConstTokens == {Token(tt, v) : tt \in {"Integer", "Char", "Real"}, v \in 0..MaxConst}
SepTokens == {Token("DotDot", 0), Token("Comma", 0)}

\* Parser::ParseConstantValue: the token type it leaves in tt, the type it
\* leaves in type, its result and the error it reports
ParseConstantValue(tt, type, token) ==
    IF tt # Unknown /\ token.tt # tt
    THEN [tt |-> Unknown, type |-> type, result |-> 0,
          errors |-> {"Expected token to match type"}]
    ELSE IF token.tt = "Integer"
    THEN [tt |-> "Integer", type |-> IntegerT, result |-> token.val, errors |-> {}]
    ELSE IF token.tt = "Char"
    THEN [tt |-> "Char", type |-> CharT, result |-> token.val, errors |-> {}]
    ELSE [tt |-> Unknown, type |-> type, result |-> 0,
          errors |-> {"Invalid constant value, expected char, integer or enum value"}]

\* Parser::ParseRange: the range it returns (Null for 0), the type it leaves
\* in type and the errors it reports
ParseRange(tokens) ==
    LET first == ParseConstantValue(Unknown, Null, tokens[1])
        second == ParseConstantValue(first.tt, first.type, tokens[3])
        start == first.result
        end == second.result
    IN  IF first.tt = Unknown
        THEN [range |-> Null, type |-> first.type, errors |-> first.errors]
        ELSE IF tokens[2].tt # "DotDot"
        THEN [range |-> Null, type |-> first.type, errors |-> {"Expected '..'"}]
        ELSE IF second.tt = Unknown
        THEN [range |-> Null, type |-> second.type, errors |-> second.errors]
        ELSE IF end <= start
        THEN [range |-> Null, type |-> second.type,
              errors |-> {"Invalid range specification"}]
        ELSE [range |-> RangeDecl(TypeOf(second.type), start, end),
              type |-> second.type, errors |-> {}]

\* Parser::ParseRangeOrTypeRange when the current token names no type
ParseRangeOrTypeRange(tokens) == ParseRange(tokens)

SetInit ==
    /\ setTokens \in {<<t1, sep, t2>> : t1 \in ConstTokens, sep \in SepTokens, t2 \in ConstTokens}
    /\ setPhase = "parsing"
    /\ setErrors = {}
    /\ setDecl = Null

\* Parser::ParseSetDecl after 'set of'
ParseSetDecl ==
    /\ setPhase = "parsing"
    /\ LET r == ParseRangeOrTypeRange(setTokens)
       IN  /\ setErrors' = setErrors \cup r.errors
           /\ setDecl' = IF r.range # Null THEN SetDecl(r.range, r.type) ELSE Null
    /\ setPhase' = "parsed"
    /\ UNCHANGED setTokens
    /\ UNCHANGED exceptSet

SetNext == ParseSetDecl

InitSet ==
    ClosureIdle /\ TypeDefIdle /\ TypesIdle /\ VariantIdle /\ ForIdle /\ SetInit /\ ClassIdle /\ ScopeIdle /\ ConstIdle /\ BitsIdle /\ StrIdle /\ InIdle /\ FieldsIdle /\ WithIdle /\ BinIdle /\ ConstDefIdle /\ TokIdle /\ SetOpIdle /\ RangeIdle

SpecSet == InitSet /\ [][SetNext]_vars

\* C8: parsing 'set of 0..0' reports no error and yields the set type over
\* the range 0..0
C8_SingletonSetParses ==
    (setPhase = "parsed"
        /\ setTokens = <<Token("Integer", 0), Token("DotDot", 0), Token("Integer", 0)>>) =>
        /\ setErrors = {}
        /\ setDecl = SetDecl(RangeDecl("Integer", 0, 0), IntegerT)

(***************************************************************************)
(* Objects: the member-function table, the virtual table and the field     *)
(* positions of a ClassDecl.  A MemberFuncDecl is shared between an object *)
(* and the objects derived from it, so its VirtIndex is kept in            *)
(* memberFuncs and a member-function table holds positions of memberFuncs. *)
(***************************************************************************)
MaxClasses == 2
MaxMethods == 2
MaxFields == 2

MethodNames == {"p", "v"}
MethodFlags == {"normal", "virtual", "override"}
FieldNames == {"a", "b"}

\* a sequence that names nothing twice: ParseFields refuses a second field of
\* one name, and a method is a field until ParseObjectDecl takes it out
DistinctNames(q) == \A i, j \in DOMAIN q : i # j => q[i].name # q[j].name
MethodLists ==
    {q \in SeqsUpTo([name : MethodNames, flags : MethodFlags], MaxMethods) : DistinctNames(q)}
FieldLists ==
    {q \in SeqsUpTo(FieldNames, MaxFields) : \A i, j \in DOMAIN q : i # j => q[i] # q[j]}
\* the method lists that decide whether an object has a virtual table
FewMethodLists ==
    {<<>>, <<[name |-> "p", flags |-> "normal"]>>, <<[name |-> "p", flags |-> "virtual"]>>}

\* MemberFuncDecl::MemberFuncDecl: no virtual index yet
MemberFuncDecl(m) == [name |-> m.name, flags |-> m.flags, virtIndex |-> -1]

\* the first position (from 1) of q that satisfies Test, 0 when there is none
FirstIndex(q, Test(_)) ==
    IF \E i \in DOMAIN q : Test(q[i])
    THEN CHOOSE i \in DOMAIN q : Test(q[i]) /\ \A j \in 1..(i - 1) : ~Test(q[j])
    ELSE 0

\* a constructor that pushes every method to the end of the table
AddMembFuncs_AppendOnly(membfuncs, ids, M) == membfuncs \o ids

\* ClassDecl::ClassDecl, the loop over mf: a method takes the place of the
\* inherited method of its name, or is pushed to the end
RECURSIVE AddMembFuncs(_, _, _)
AddMembFuncs(membfuncs, ids, M) ==
    IF ids = <<>> THEN membfuncs
    ELSE LET i == Head(ids)
             SameName(j) == M[j].name = M[i].name
             at == FirstIndex(membfuncs, SameName)
         IN  AddMembFuncs(IF at # 0 THEN [membfuncs EXCEPT ![at] = i]
                          ELSE Append(membfuncs, i),
                          Tail(ids), M)

\* ClassDecl::MembFunc, on the table of the object cl
MembFunc(M, cl, nm) ==
    LET Named(j) == M[j].name = nm
    IN  FirstIndex(cl.membfuncs, Named) - 1

IsVirtual(m) == m.flags = "virtual"
IsOverride(m) == m.flags = "override"

\* ClassDecl::VTableType, the loop over membfuncs from position i on; acc
\* holds the locals index, needed and vt
RECURSIVE VTableLoop(_, _, _, _, _)
VTableLoop(M, CL, cl, i, acc) ==
    IF i > Len(cl.membfuncs)
    THEN [mf |-> M, needed |-> acc.needed, vt |-> acc.vt, error |-> FALSE]
    ELSE LET m == cl.membfuncs[i]
             next == [index |-> acc.index + 1, needed |-> TRUE, vt |-> Append(acc.vt, m)]
         IN  IF IsVirtual(M[m])
             THEN VTableLoop(IF M[m].virtIndex = -1
                             THEN [M EXCEPT ![m].virtIndex = acc.index] ELSE M,
                             CL, cl, i + 1, next)
             ELSE IF IsOverride(M[m])
             THEN LET elem == IF cl.baseobj # 0
                              THEN MembFunc(M, CL[cl.baseobj], M[m].name) ELSE -1
                  IN  IF elem < 0
                      THEN [mf |-> M, needed |-> acc.needed, vt |-> acc.vt, error |-> TRUE]
                      ELSE LET mf == CL[cl.baseobj].membfuncs[elem + 1]
                           IN  VTableLoop([M EXCEPT ![m].virtIndex = M[mf].virtIndex],
                                          CL, cl, i + 1, next)
             ELSE VTableLoop(M, CL, cl, i + 1, acc)

\* ClassDecl::VTableType(opaque) on object c: the member functions and the
\* objects after the call, and the object whose vtableType it returns (0 for
\* a null pointer)
RECURSIVE VTableType(_, _, _)
VTableType(st, c, opaque) ==
    LET cl == st.cl[c]
    IN  IF cl.vtableType # "null" /\ (opaque \/ cl.vtableType = "body")
        THEN [mf |-> st.mf, cl |-> st.cl, res |-> c]
        ELSE LET st1 == IF cl.baseobj # 0 THEN VTableType(st, cl.baseobj, opaque) ELSE st
                 loop == VTableLoop(st1.mf, st1.cl, st1.cl[c], 1,
                                    [index |-> 0, needed |-> FALSE, vt |-> <<>>])
                 st2 == [mf |-> loop.mf, cl |-> st1.cl, res |-> 0]
             IN  IF loop.error THEN st2
                 ELSE IF ~loop.needed
                 THEN IF cl.baseobj # 0 THEN VTableType(st2, cl.baseobj, opaque) ELSE st2
                 ELSE [mf |-> loop.mf,
                       cl |-> [st1.cl EXCEPT
                                 ![c].vtableType =
                                     IF ~opaque THEN "body"
                                     ELSE IF @ = "null" THEN "opaque" ELSE @,
                                 ![c].vt = IF opaque THEN @ ELSE loop.vt],
                       res |-> c]

\* ClassDecl::FieldCount
RECURSIVE FieldCount(_, _)
FieldCount(CL, c) ==
    Len(CL[c].fields) + (IF CL[c].baseobj # 0 THEN FieldCount(CL, CL[c].baseobj) ELSE 0)

\* FieldCollection::Element on fields that are all named
FieldCollectionElement(fields, name) ==
    LET Named(f) == f = name
    IN  FirstIndex(fields, Named) - 1

\* ClassDecl::Element(name) on object c: the state after the call (it calls
\* VTableType(true)) and the element number in res
RECURSIVE Element(_, _, _)
Element(st, c, name) ==
    LET cl == st.cl[c]
        b == IF cl.baseobj # 0 THEN FieldCount(st.cl, cl.baseobj) ELSE 0
        elem == FieldCollectionElement(cl.fields, name)
    IN  IF elem >= 0
        THEN LET v == VTableType(st, c, TRUE)
             IN  [mf |-> v.mf, cl |-> v.cl,
                  res |-> elem + b + (IF v.res # 0 THEN 1 ELSE 0)]
        ELSE IF cl.baseobj # 0 THEN Element(st, cl.baseobj, name)
        ELSE [mf |-> st.mf, cl |-> st.cl, res |-> -1]

\* ClassDecl::GetElement(n): the field, by the object that declares it and
\* its name
RECURSIVE GetElement(_, _, _)
GetElement(CL, c, n) ==
    LET b == IF CL[c].baseobj # 0 THEN FieldCount(CL, CL[c].baseobj) ELSE 0
    IN  IF n < b THEN GetElement(CL, CL[c].baseobj, n)
        ELSE [objname |-> c, name |-> CL[c].fields[n - b + 1]]

VTablePointer == [objname |-> 0, name |-> "vtable*"]

\* ClassDecl::GetLlvmType on object c, none of whose fields is static or an
\* incomplete pointer: the members of the struct, and whether it handed
\* PointerType::getUnqual a null vtableType
GetLlvmType(st, c) ==
    LET v == VTableType(st, c, TRUE)
        fc == FieldCount(v.cl, c)
        own == [i \in 1..fc |-> GetElement(v.cl, c, i - 1)]
    IN  [fv |-> IF v.res # 0 THEN <<VTablePointer>> \o own ELSE own,
         nullVTable |-> v.res # 0 /\ v.cl[c].vtableType = "null"]

ClassInit ==
    /\ memberFuncs = <<>>
    /\ classes = <<>>
    /\ elemObj = 0
    /\ elemName = ""
    /\ elemRes = -1

\* ClassDecl::ClassDecl for an object with the fields flds and the methods
\* mf, derived from the object base (0: from none)
DeclareClass(base, flds, mf) ==
    /\ Len(classes) < MaxClasses
    /\ LET n == Len(memberFuncs)
           M == memberFuncs \o [i \in 1..Len(mf) |-> MemberFuncDecl(mf[i])]
           ids == [i \in 1..Len(mf) |-> n + i]
           inherited == IF base # 0 THEN classes[base].membfuncs ELSE <<>>
       IN  /\ memberFuncs' = M
           /\ classes' = Append(classes,
                                [baseobj |-> base, fields |-> flds,
                                 membfuncs |-> AddMembFuncs(inherited, ids, M),
                                 vtableType |-> "null", vt |-> <<>>])
    /\ UNCHANGED <<elemObj, elemName, elemRes>>
    /\ UNCHANGED exceptClass

\* a call of ClassDecl::VTableType(false) on object c
CallVTableType(c) ==
    /\ LET v == VTableType([mf |-> memberFuncs, cl |-> classes, res |-> 0], c, FALSE)
       IN  /\ memberFuncs' = v.mf
           /\ classes' = v.cl
    /\ UNCHANGED <<elemObj, elemName, elemRes>>
    /\ UNCHANGED exceptClass

\* a call of ClassDecl::Element(name) on object c
CallElement(c, name) ==
    /\ LET e == Element([mf |-> memberFuncs, cl |-> classes, res |-> 0], c, name)
       IN  /\ memberFuncs' = e.mf
           /\ classes' = e.cl
           /\ elemRes' = e.res
    /\ elemObj' = c
    /\ elemName' = name
    /\ UNCHANGED exceptClass

\* objects that differ in their methods
VTableNext ==
    \/ \E base \in 0..Len(classes), mf \in MethodLists : DeclareClass(base, <<>>, mf)
    \/ \E c \in DOMAIN classes : CallVTableType(c)

InitClass ==
    ClosureIdle /\ TypeDefIdle /\ TypesIdle /\ VariantIdle /\ ForIdle /\ SetIdle /\ ClassInit /\ ScopeIdle /\ ConstIdle /\ BitsIdle /\ StrIdle /\ InIdle /\ FieldsIdle /\ WithIdle /\ BinIdle /\ ConstDefIdle /\ TokIdle /\ SetOpIdle /\ RangeIdle

SpecVTable == InitClass /\ [][VTableNext]_vars

\* objects that differ in their fields and in having a virtual method
ObjectNext ==
    \/ \E base \in 0..Len(classes), flds \in FieldLists, mf \in FewMethodLists :
           DeclareClass(base, flds, mf)
    \/ \E c \in DOMAIN classes : CallVTableType(c)
    \/ \E c \in DOMAIN classes, name \in FieldNames : CallElement(c, name)

SpecObject == InitClass /\ [][ObjectNext]_vars

\* the positions of O's table that hold a virtual or an override method
VirtualEntries(cl) ==
    {i \in DOMAIN cl.membfuncs :
        IsVirtual(memberFuncs[cl.membfuncs[i]]) \/ IsOverride(memberFuncs[cl.membfuncs[i]])}

\* C9: once VTableType has given object O its vtable struct, two virtual or
\* override entries of O's member-function table never have one virtual
\* index, an override has the index of the base method it overrides, and
\* slot k of the struct is the method whose virtual index is k
C9_VirtualIndicesMatchSlots ==
    \A c \in DOMAIN classes :
        classes[c].vtableType = "body" =>
            LET cl == classes[c]
                Idx(i) == memberFuncs[cl.membfuncs[i]].virtIndex
            IN  /\ \A i, j \in VirtualEntries(cl) : i # j => Idx(i) # Idx(j)
                /\ \A i \in VirtualEntries(cl) :
                       (IsOverride(memberFuncs[cl.membfuncs[i]]) /\ cl.baseobj # 0) =>
                           LET base == classes[cl.baseobj]
                               elem == MembFunc(memberFuncs, base,
                                                memberFuncs[cl.membfuncs[i]].name)
                           IN  elem >= 0 =>
                                   Idx(i) = memberFuncs[base.membfuncs[elem + 1]].virtIndex
                /\ \A k \in DOMAIN cl.vt : memberFuncs[cl.vt[k]].virtIndex = k - 1

\* the object, O or an ancestor of O, whose field a look-up of name finds:
\* the nearest one that declares it (0: none does)
RECURSIVE Declarer(_, _)
Declarer(c, name) ==
    IF c = 0 THEN 0
    ELSE IF \E i \in DOMAIN classes[c].fields : classes[c].fields[i] = name THEN c
    ELSE Declarer(classes[c].baseobj, name)

\* C10: ClassDecl::Element(n) on object O is the position, counted from 0,
\* that the field n of O or of its nearest ancestor declaring n has in the
\* struct ClassDecl::GetLlvmType builds for O
C10_ElementIsLayoutPosition ==
    (elemObj # 0 /\ Declarer(elemObj, elemName) # 0) =>
        LET ty == GetLlvmType([mf |-> memberFuncs, cl |-> classes, res |-> 0], elemObj)
            field == [objname |-> Declarer(elemObj, elemName), name |-> elemName]
        IN  /\ ~ty.nullVTable
            /\ elemRes + 1 \in DOMAIN ty.fv
            /\ ty.fv[elemRes + 1] = field

(***************************************************************************)
(* The scope stacks and the calls that push on them: Parser::ParseDefinition *)
(* and Parser::ParseWithBlock on nameStack and usedVariables,              *)
(* FunctionAST::CodeGen on variables and mangles.  A pushed scope is a     *)
(* StackWrapper local of the call; a name on a stack carries the call that *)
(* added it inside its pushed scope (0 when it was added outside one).     *)
(***************************************************************************)
MaxActivations == 3
MaxNesting == 2

StackNames == {"nameStack", "usedVariables", "variables", "mangles"}
ScopeNames == {"x", "y"}

Depths(stacks) == [k \in StackNames |-> Len(stacks[k])]

\* StackWrapper::StackWrapper on the stack k
Push(stacks, k) == [stacks EXCEPT ![k] = NewLevel(@)]

\* the StackWrapper destructors of a call, the last constructed first
RECURSIVE Unwind(_, _)
Unwind(stacks, wrappers) ==
    IF wrappers = <<>> THEN stacks
    ELSE Unwind([stacks EXCEPT ![wrappers[Len(wrappers)]] = DropLevel(@)],
                SubSeq(wrappers, 1, Len(wrappers) - 1))

\* Stack::Add of the name n by the call id; an Add that fails adds nothing
AddTo(stacks, k, n, id) ==
    IF \E d \in stacks[k][Len(stacks[k])] : d.name = n THEN stacks
    ELSE [stacks EXCEPT ![k][Len(stacks[k])] = @ \cup {[name |-> n, by |-> id]}]

RECURSIVE AddAll(_, _, _, _)
AddAll(stacks, k, names, id) ==
    IF names = {} THEN stacks
    ELSE LET n == CHOOSE x \in names : TRUE
         IN  AddAll(AddTo(stacks, k, n, id), k, names \ {n}, id)

Activation(fn, id, wrappers) ==
    [fn |-> fn, id |-> id, entry |-> Depths(scopeStacks), wrappers |-> wrappers]

TopFn == IF activations = <<>> THEN "none" ELSE activations[Len(activations)].fn

ScopeInit ==
    /\ scopeStacks = [k \in StackNames |-> << {} >>]
    /\ activations = <<>>
    /\ nextId = 0
    /\ lastReturn = [fn |-> "none", id |-> 0, entry |-> Depths([k \in StackNames |-> << {} >>]),
                     exit |-> Depths([k \in StackNames |-> << {} >>]), wrappers |-> <<>>]

CanCall ==
    /\ nextId < MaxActivations
    /\ Len(activations) < MaxNesting

Returned(act, stacks) ==
    [fn |-> act.fn, id |-> act.id, entry |-> act.entry, exit |-> Depths(stacks),
     wrappers |-> act.wrappers]

\* ParseDefinition that returns before it pushes a scope: no prototype, the
\* name exists already, or a forward declaration (the name is then added)
ParseDefinitionEarly(name, added) ==
    /\ CanCall
    /\ TopFn \in {"none", "ParseDefinition"}
    /\ LET act == Activation("ParseDefinition", nextId + 1, <<>>)
           stacks == IF added THEN AddTo(scopeStacks, "nameStack", name, 0) ELSE scopeStacks
       IN  /\ scopeStacks' = stacks
           /\ lastReturn' = Returned(act, stacks)
    /\ nextId' = nextId + 1
    /\ UNCHANGED activations
    /\ UNCHANGED exceptScope

\* ParseDefinition that adds its parameters before it pushes the two scopes
ParseDefinitionScope_ArgsFirst(name, args) ==
    /\ CanCall
    /\ TopFn \in {"none", "ParseDefinition"}
    /\ LET id == nextId + 1
           named == AddTo(scopeStacks, "nameStack", name, 0)
           withArgs == AddAll(named, "nameStack", args, id)
       IN  /\ scopeStacks' = Push(Push(withArgs, "nameStack"), "usedVariables")
           /\ activations' = Append(activations,
                                    Activation("ParseDefinition", id,
                                               <<"nameStack", "usedVariables">>))
    /\ nextId' = nextId + 1
    /\ UNCHANGED lastReturn
    /\ UNCHANGED exceptScope

\* ParseDefinition up to the declarations: the name of the routine, the two
\* NameWrappers, the parameters
ParseDefinitionScope(name, args) ==
    /\ CanCall
    /\ TopFn \in {"none", "ParseDefinition"}
    /\ LET id == nextId + 1
           named == AddTo(scopeStacks, "nameStack", name, 0)
           pushed == Push(Push(named, "nameStack"), "usedVariables")
       IN  /\ scopeStacks' = AddAll(pushed, "nameStack", args, id)
           /\ activations' = Append(activations,
                                    Activation("ParseDefinition", id,
                                               <<"nameStack", "usedVariables">>))
    /\ nextId' = nextId + 1
    /\ UNCHANGED lastReturn
    /\ UNCHANGED exceptScope

\* ParseWithBlock that returns before it pushes a scope
ParseWithBlockEarly ==
    /\ CanCall
    /\ TopFn \in {"none", "ParseDefinition", "ParseWithBlock"}
    /\ lastReturn' = Returned(Activation("ParseWithBlock", nextId + 1, <<>>), scopeStacks)
    /\ nextId' = nextId + 1
    /\ UNCHANGED <<scopeStacks, activations>>
    /\ UNCHANGED exceptScope

\* ParseWithBlock from its NameWrapper on: ExpandWithNames adds the fields
ParseWithBlockScope(fields) ==
    /\ CanCall
    /\ TopFn \in {"none", "ParseDefinition", "ParseWithBlock"}
    /\ LET id == nextId + 1
       IN  /\ scopeStacks' = AddAll(Push(scopeStacks, "nameStack"), "nameStack", fields, id)
           /\ activations' = Append(activations,
                                    Activation("ParseWithBlock", id, <<"nameStack">>))
    /\ nextId' = nextId + 1
    /\ UNCHANGED lastReturn
    /\ UNCHANGED exceptScope

\* FunctionAST::CodeGen up to the MangleWrapper: the VarStackWrapper, the
\* name PrototypeAST::CodeGen gives mangles, the arguments and the locals
CodeGenScope(name, locals) ==
    /\ CanCall
    /\ TopFn \in {"none", "CodeGenBody"}
    /\ LET id == nextId + 1
           pushed == Push(scopeStacks, "variables")
           mangled == AddTo(pushed, "mangles", name, 0)
       IN  /\ scopeStacks' = AddAll(mangled, "variables", locals, id)
           /\ activations' = Append(activations, Activation("CodeGen", id, <<"variables">>))
    /\ nextId' = nextId + 1
    /\ UNCHANGED lastReturn
    /\ UNCHANGED exceptScope

\* FunctionAST::CodeGen: the MangleWrapper, before the sub-functions
CodeGenMangle ==
    /\ TopFn = "CodeGen"
    /\ scopeStacks' = Push(scopeStacks, "mangles")
    /\ activations' = [activations EXCEPT
                          ![Len(activations)].fn = "CodeGenBody",
                          ![Len(activations)].wrappers = Append(@, "mangles")]
    /\ UNCHANGED <<nextId, lastReturn>>
    /\ UNCHANGED exceptScope

\* a name added inside the innermost call: a local or a used variable while
\* parsing, a variable while lowering
ScopeAdd(k, n) ==
    /\ activations # <<>>
    /\ k \in (IF TopFn \in {"CodeGen", "CodeGenBody"} THEN {"variables"}
              ELSE IF TopFn = "ParseDefinition" THEN {"nameStack", "usedVariables"}
              ELSE {"usedVariables"})
    /\ k = "usedVariables" =>
           \E a \in DOMAIN activations : activations[a].fn = "ParseDefinition"
    /\ LET owner == IF k = "usedVariables"
                    THEN activations[CHOOSE a \in DOMAIN activations :
                             /\ activations[a].fn = "ParseDefinition"
                             /\ \A b \in DOMAIN activations :
                                    activations[b].fn = "ParseDefinition" => b <= a].id
                    ELSE activations[Len(activations)].id
       IN  scopeStacks' = AddTo(scopeStacks, k, n, owner)
    /\ UNCHANGED <<activations, nextId, lastReturn>>
    /\ UNCHANGED exceptScope

\* any return of the innermost call, normal or with an error: the
\* StackWrappers it constructed are destroyed
ScopeReturn ==
    /\ activations # <<>>
    /\ LET act == activations[Len(activations)]
           stacks == Unwind(scopeStacks, act.wrappers)
       IN  /\ scopeStacks' = stacks
           /\ lastReturn' = Returned(act, stacks)
    /\ activations' = SubSeq(activations, 1, Len(activations) - 1)
    /\ UNCHANGED nextId
    /\ UNCHANGED exceptScope

ScopeNext ==
    \/ \E name \in ScopeNames, added \in BOOLEAN : ParseDefinitionEarly(name, added)
    \/ \E name \in ScopeNames, args \in SUBSET ScopeNames : ParseDefinitionScope(name, args)
    \/ ParseWithBlockEarly
    \/ \E fields \in SUBSET ScopeNames : ParseWithBlockScope(fields)
    \/ \E name \in ScopeNames, locals \in SUBSET ScopeNames : CodeGenScope(name, locals)
    \/ CodeGenMangle
    \/ \E k \in StackNames, n \in ScopeNames : ScopeAdd(k, n)
    \/ ScopeReturn

InitScope ==
    ClosureIdle /\ TypeDefIdle /\ TypesIdle /\ VariantIdle /\ ForIdle /\ SetIdle /\ ClassIdle /\ ScopeInit /\ ConstIdle /\ BitsIdle /\ StrIdle /\ InIdle /\ FieldsIdle /\ WithIdle /\ BinIdle /\ ConstDefIdle /\ TokIdle /\ SetOpIdle /\ RangeIdle

SpecScope == InitScope /\ [][ScopeNext]_vars

\* C11: when ParseDefinition, ParseWithBlock or FunctionAST::CodeGen has
\* returned, every scope stack is as deep as it was on entry, and no name the
\* call added inside its pushed scope is on a stack any more
C11_ScopesRestoredOnReturn ==
    lastReturn.fn # "none" =>
        /\ lastReturn.exit = lastReturn.entry
        /\ \A k \in StackNames : \A i \in DOMAIN scopeStacks[k] :
               \A d \in scopeStacks[k][i] : d.by # lastReturn.id

\* a ParseDefinition that had pushed its two scopes has returned, and the
\* name of its routine is still on the name stack
C11_Witness ==
    /\ lastReturn.fn = "ParseDefinition"
    /\ Len(lastReturn.wrappers) = 2
    /\ lastReturn.exit = lastReturn.entry
    /\ \E d \in scopeStacks["nameStack"][1] : d.by = 0

(***************************************************************************)
(* Constant expressions: Parser::ParseConstExpr, Parser::ParseConstRHS and *)
(* Parser::ParseConstEval on integer constants and binary operators.       *)
(***************************************************************************)
MaxConstVal == 2

BinOps == {"Plus", "Minus", "Multiply", "Divide"}
IntTokens == {Token("Integer", v) : v \in 0..MaxConstVal}
OpTokens == {Token(op, 0) : op \in BinOps}
Semicolon == Token("Semicolon", 0)

\* Constants::IntConstDecl
IntConstDecl(v) == [kind |-> "Int", val |-> v]

\* Token::Precedence: the multiplying operators above the adding ones, -1
\* for a token that is no operator
Precedence(token) ==
    IF token.tt \in {"Multiply", "Divide"} THEN 2
    ELSE IF token.tt \in {"Plus", "Minus"} THEN 1
    ELSE -1

\* Parser::ParseConstEval; the operators of ConstDecl on two IntConstDecl
ParseConstEval(lhs, binOp, rhs) ==
    IF lhs = Null \/ rhs = Null THEN Null
    ELSE IF binOp.tt = "Plus" THEN IntConstDecl(lhs.val + rhs.val)
    ELSE IF binOp.tt = "Minus" THEN IntConstDecl(lhs.val - rhs.val)
    ELSE IF binOp.tt = "Multiply" THEN IntConstDecl(lhs.val * rhs.val)
    ELSE Null

IsEnd(token) == token.tt \in {"Semicolon", "RightParen"}

RECURSIVE ParseConstExpr(_, _)
RECURSIVE ParseConstRHS(_, _, _, _)

\* Parser::ParseConstRHS with the current token at pos: the constant it
\* returns and the position of the current token then
ParseConstRHS(toks, pos, exprPrec, lhs) ==
    LET tokPrec == Precedence(toks[pos])
    IN  IF tokPrec < exprPrec THEN [cd |-> lhs, pos |-> pos]
        ELSE LET binOp == toks[pos]
                 first == ParseConstExpr(toks, pos + 1)
                 nextPrec == Precedence(toks[first.pos])
                 deeper == IF first.cd # Null /\ tokPrec < nextPrec
                           THEN ParseConstRHS(toks, first.pos, tokPrec + 1, first.cd)
                           ELSE first
             IN  IF deeper.cd = Null THEN [cd |-> Null, pos |-> deeper.pos]
                 ELSE ParseConstRHS(toks, deeper.pos, exprPrec,
                                    ParseConstEval(lhs, binOp, deeper.cd))

\* Parser::ParseConstExpr with the current token at pos, for tokens that are
\* integers and binary operators
ParseConstExpr(toks, pos) ==
    IF toks[pos].tt # "Integer" THEN [cd |-> Null, pos |-> pos]
    ELSE LET cd == IntConstDecl(toks[pos].val)
             rest == IF IsEnd(toks[pos + 1]) THEN [cd |-> cd, pos |-> pos + 1]
                     ELSE ParseConstRHS(toks, pos + 1, 0, cd)
         IN  IF rest.cd = Null \/ IsEnd(toks[rest.pos]) THEN rest
             ELSE ParseConstExpr(toks, rest.pos)

ConstInit ==
    /\ constTokens \in {<<a, op1, b, op2, c, Semicolon>> :
                           a \in IntTokens, op1 \in OpTokens, b \in IntTokens,
                           op2 \in OpTokens, c \in IntTokens}
    /\ constPhase = "parsing"
    /\ constValue = Null

\* the call of ParseConstExpr on the expression
CallParseConstExpr ==
    /\ constPhase = "parsing"
    /\ constValue' = ParseConstExpr(constTokens, 1).cd
    /\ constPhase' = "parsed"
    /\ UNCHANGED constTokens
    /\ UNCHANGED exceptConst

ConstNext == CallParseConstExpr

InitConst ==
    ClosureIdle /\ TypeDefIdle /\ TypesIdle /\ VariantIdle /\ ForIdle /\ SetIdle /\ ClassIdle /\ ScopeIdle /\ ConstInit /\ BitsIdle /\ StrIdle /\ InIdle /\ FieldsIdle /\ WithIdle /\ BinIdle /\ ConstDefIdle /\ TokIdle /\ SetOpIdle /\ RangeIdle

SpecConst == InitConst /\ [][ConstNext]_vars

Shape(op1, op2) ==
    /\ constTokens[2].tt = op1
    /\ constTokens[4].tt = op2

\* C12: ParseConstExpr gives a * b + c the value (a*b)+c, a + b * c the
\* value a+(b*c) and a - b - c the value (a-b)-c
C12_ConstExprPrecedence ==
    constPhase = "parsed" =>
        LET a == constTokens[1].val
            b == constTokens[3].val
            c == constTokens[5].val
        IN  /\ Shape("Multiply", "Plus") => constValue = IntConstDecl((a * b) + c)
            /\ Shape("Plus", "Multiply") => constValue = IntConstDecl(a + (b * c))
            /\ Shape("Minus", "Minus") => constValue = IntConstDecl((a - b) - c)

(***************************************************************************)
(* RangeDecl::Bits and EnumDecl::Bits, one turn of the loop at a time.     *)
(* unsigned is UIntBits wide; a shift by the width or more is undefined.   *)
(***************************************************************************)
MaxSize == 16
UIntBits == 6

\* 1u << b: undefined for b >= the width, where the builds give 0 or 1 << (b
\* mod width)
ShiftOne(b) == IF b < UIntBits THEN {2 ^ b} ELSE {0, 2 ^ (b % UIntBits)}

BitsInit ==
    /\ bitsKind \in {"Range", "Enum"}
    /\ bitsS \in 0..MaxSize
    /\ bitsB = 1
    /\ bitsPc = "loop"

\* while(s < (1u << b)) b++, the test holding
BitsLoop ==
    /\ bitsPc = "loop"
    /\ bitsB < 2 * UIntBits
    /\ \E one \in ShiftOne(bitsB) : bitsS < one
    /\ bitsB' = bitsB + 1
    /\ UNCHANGED <<bitsKind, bitsS, bitsPc>>
    /\ UNCHANGED exceptBits

\* while(s < (1u << b)) failing; return b
BitsReturn ==
    /\ bitsPc = "loop"
    /\ \E one \in ShiftOne(bitsB) : ~(bitsS < one)
    /\ bitsPc' = "returned"
    /\ UNCHANGED <<bitsKind, bitsS, bitsB>>
    /\ UNCHANGED exceptBits

BitsNext == BitsLoop \/ BitsReturn

InitBits ==
    ClosureIdle /\ TypeDefIdle /\ TypesIdle /\ VariantIdle /\ ForIdle /\ SetIdle /\ ClassIdle /\ ScopeIdle /\ ConstIdle /\ BitsInit /\ StrIdle /\ InIdle /\ FieldsIdle /\ WithIdle /\ BinIdle /\ ConstDefIdle /\ TokIdle /\ SetOpIdle /\ RangeIdle

SpecBits == InitBits /\ [][BitsNext]_vars

\* the smallest b with 2^b >= n
CeilLog2(n) == CHOOSE b \in 0..UIntBits : 2 ^ b >= n /\ \A c \in 0..(b - 1) : 2 ^ c < n

\* C13: for a subrange or an enumeration of n >= 2 elements Bits() returns
\* the smallest b with 2^b >= n
C13_BitsIsCeilLog2 ==
    (bitsPc = "returned" /\ bitsS >= 2) => bitsB = CeilLog2(bitsS)

(***************************************************************************)
(* The stores AssignExprAST::AssignStr emits for 'v := literal', v a       *)
(* String of capacity N, as they execute.                                  *)
(***************************************************************************)
MaxCapacity == 6
MaxLiteral == 8

StrInit ==
    /\ strCap \in 1..MaxCapacity
    /\ strRhs \in {[kind |-> "char", len |-> 1]}
                      \cup {[kind |-> "string", len |-> n] : n \in 0..MaxLiteral}
    /\ strLenByte = 0
    /\ strWritten = {}
    /\ strPc = "start"

\* the store to dest1: MakeCharConstant(1), or MakeCharConstant(Str().size())
AssignStrLength ==
    /\ strPc = "start"
    /\ strLenByte' = IF strRhs.kind = "char" THEN 1 ELSE strRhs.len % 256
    /\ strWritten' = strWritten \cup {0}
    /\ strPc' = "length"
    /\ UNCHANGED <<strCap, strRhs>>
    /\ UNCHANGED exceptStr

\* the store of the char to dest2, or the memcpy of Str().size() bytes to it
AssignStrCopy ==
    /\ strPc = "length"
    /\ strWritten' = strWritten \cup
                        (IF strRhs.kind = "char" THEN {1} ELSE 1..strRhs.len)
    /\ strPc' = "done"
    /\ UNCHANGED <<strCap, strRhs, strLenByte>>
    /\ UNCHANGED exceptStr

StrNext == AssignStrLength \/ AssignStrCopy

InitStr ==
    ClosureIdle /\ TypeDefIdle /\ TypesIdle /\ VariantIdle /\ ForIdle /\ SetIdle /\ ClassIdle /\ ScopeIdle /\ ConstIdle /\ BitsIdle /\ StrInit /\ InIdle /\ FieldsIdle /\ WithIdle /\ BinIdle /\ ConstDefIdle /\ TokIdle /\ SetOpIdle /\ RangeIdle

SpecStr == InitStr /\ [][StrNext]_vars

Min(a, b) == IF a < b THEN a ELSE b

\* C14: after the assignment of a string literal of length len to a String
\* of capacity N the length byte is min(len, N), the bytes 1..min(len, N)
\* are written and no byte outside the variable's bytes 0..N is
C14_StringAssignWithinCapacity ==
    (strPc = "done" /\ strRhs.kind = "string") =>
        /\ strLenByte = Min(strRhs.len, strCap)
        /\ strWritten = 0..Min(strRhs.len, strCap)
        /\ strWritten \subseteq 0..strCap

(***************************************************************************)
(* A set literal of single elements (SetExprAST::Address) and the test     *)
(* 'x in S' on it (BinaryExprAST::CodeGen), as the emitted code executes.  *)
(* A word is its 32 bits, bit 0 the least significant.                     *)
(***************************************************************************)
MaxSetWords == 2
MaxElems == 2

MaxSetSize == MaxSetWords * 32
WordBits == 0..31
ZeroWord == [i \in WordBits |-> FALSE]
ShlOne(offset) == [i \in WordBits |-> i = offset]
OrWord(a, b) == [i \in WordBits |-> a[i] \/ b[i]]
LShrWord(w, offset) == [i \in WordBits |-> i + offset \in WordBits /\ w[i + offset]]
TruncBoolean(w) == w[0]

\* the stores of one element: index = x >> 5, offset = x & 31,
\* bitset |= 1 << offset
SetElement(mem, x) ==
    LET index == x \div 32
        offset == x % 32
    IN [mem EXCEPT ![index] = OrWord(mem[index], ShlOne(offset))]

InTest_WordNotShifted(mem, l) ==
    LET index == l \div 32
    IN TruncBoolean(mem[index])

\* index = l >> 5, offset = l & 31, bit = bitset >> offset, truncated to i1
InTest(mem, l) ==
    LET index == l \div 32
        offset == l % 32
    IN TruncBoolean(LShrWord(mem[index], offset))

\* after the memset of the temporary
InInit ==
    /\ inMem = [w \in 0..(MaxSetWords - 1) |-> ZeroWord]
    /\ inElems = {}
    /\ inCount = 0
    /\ inX = 0
    /\ inRes = FALSE
    /\ inPc = "literal"

AddressElement(x) ==
    /\ inPc = "literal"
    /\ inCount < MaxElems
    /\ inMem' = SetElement(inMem, x)
    /\ inElems' = inElems \cup {x}
    /\ inCount' = inCount + 1
    /\ UNCHANGED <<inX, inRes, inPc>>
    /\ UNCHANGED exceptIn

CodeGenIn(l) ==
    /\ inPc = "literal"
    /\ inX' = l
    /\ inRes' = InTest(inMem, l)
    /\ inPc' = "tested"
    /\ UNCHANGED <<inMem, inElems, inCount>>
    /\ UNCHANGED exceptIn

InNext ==
    \/ \E x \in 0..(MaxSetSize - 1) : AddressElement(x)
    \/ \E l \in 0..(MaxSetSize - 1) : CodeGenIn(l)

InitIn ==
    ClosureIdle /\ TypeDefIdle /\ TypesIdle /\ VariantIdle /\ ForIdle /\ SetIdle /\ ClassIdle /\ ScopeIdle /\ ConstIdle /\ BitsIdle /\ StrIdle /\ InInit /\ FieldsIdle /\ WithIdle /\ BinIdle /\ ConstDefIdle /\ TokIdle /\ SetOpIdle /\ RangeIdle

SpecIn == InitIn /\ [][InNext]_vars

\* C15: for a set literal of single elements, the lowered test 'x in S' is
\* true exactly when x is the value of one of the elements
C15_InIsMembership ==
    inPc = "tested" => (inRes <=> inX \in inElems)

\* Green in [Red, Blue] is false, and an element of the second word is found
C15_Witness ==
    /\ inPc = "tested"
    /\ inElems = {0, 2}
    /\ inX = 1
    /\ inRes = FALSE

C15_WitnessSecondWord ==
    /\ inPc = "tested"
    /\ inElems = {1, 33}
    /\ inX = 33
    /\ inRes = TRUE

(***************************************************************************)
(* Array and class compatibility, over the calls of SpecTypes.             *)
(***************************************************************************)
DimensionsDiffer(a, b) ==
    \/ Len(a.ranges) # Len(b.ranges)
    \/ \E i \in 1..Len(a.ranges) : RangeSize(a.ranges[i]) # RangeSize(b.ranges[i])

\* C16: an array type's CompatibleType returns 'no match' for a non-array
\* argument and for every array whose dimension count or some dimension's
\* size differs, whatever the element types
C16_ArrayShapeMismatch ==
    (/\ tyOp = "compatible"
     /\ tyThis.kind = "Array"
     /\ (tyArg.kind # "Array" \/ DimensionsDiffer(tyThis, tyArg)))
        => tyRes = NoMatch

\* the object ty and every object reachable from it by base links
RECURSIVE BaseChain(_)
BaseChain(ty) == IF ty.baseobj = Null THEN {ty} ELSE {ty} \cup BaseChain(ty.baseobj)

\* C20: for objects B and D, B.CompatibleType(D) returns B exactly when B is
\* D or is reachable from D by base links, and 'no match' otherwise (so an
\* object does not accept its base); the call ends on every finite chain
C20_ClassAcceptsDerived ==
    (tyOp = "compatible" /\ tyThis.kind = "Class" /\ tyArg.kind = "Class") =>
        tyRes = IF tyThis \in BaseChain(tyArg) THEN tyThis ELSE NoMatch

\* the base of a base is found
C20_Witness ==
    /\ tyOp = "compatible"
    /\ tyThis = ClassA
    /\ tyArg = ClassC
    /\ tyRes = ClassA

\* an object does not accept its base
C20_WitnessBaseRefused ==
    /\ tyOp = "compatible"
    /\ tyThis = ClassC
    /\ tyArg = ClassB
    /\ tyRes = NoMatch

(***************************************************************************)
(* Overrides, over the objects of SpecVTable.                              *)
(***************************************************************************)
ClassState == [mf |-> memberFuncs, cl |-> classes, res |-> 0]

\* the method at position i of object c's table is an override with no base
\* object to override in
OverrideWithoutBase(c, i) ==
    /\ IsOverride(memberFuncs[classes[c].membfuncs[i]])
    /\ classes[c].baseobj = 0

\* ... with a base object that has no method of its name
OverrideOfNothing(c, i) ==
    /\ IsOverride(memberFuncs[classes[c].membfuncs[i]])
    /\ classes[c].baseobj # 0
    /\ MembFunc(memberFuncs, classes[classes[c].baseobj],
                memberFuncs[classes[c].membfuncs[i]].name) < 0

\* ... with a base method of its name that is neither virtual nor override
OverrideOfNonVirtual(c, i) ==
    /\ IsOverride(memberFuncs[classes[c].membfuncs[i]])
    /\ classes[c].baseobj # 0
    /\ LET base == classes[classes[c].baseobj]
           elem == MembFunc(memberFuncs, base, memberFuncs[classes[c].membfuncs[i]].name)
       IN  /\ elem >= 0
           /\ ~IsVirtual(memberFuncs[base.membfuncs[elem + 1]])
           /\ ~IsOverride(memberFuncs[base.membfuncs[elem + 1]])

\* C17: VTableType on an object returns no type (after reporting the error)
\* whenever one of its overrides does not override a virtual base method:
\* there is no base object, the base has no method of that name, or the base
\* method of that name is neither virtual nor override
C17_BadOverrideIsError ==
    \A c \in DOMAIN classes :
        (\E i \in DOMAIN classes[c].membfuncs :
            \/ OverrideWithoutBase(c, i)
            \/ OverrideOfNothing(c, i)
            \/ OverrideOfNonVirtual(c, i))
        => VTableType(ClassState, c, FALSE).res = 0

(***************************************************************************)
(* The fields of a record declaration.  A declaration is the names of its  *)
(* fixed part in order, whether it has a variant part, the name of the     *)
(* selector ("" for none) and the names of each arm in order.  'a, b: T'   *)
(* is read as 'a: T; b: T': each name is tested and pushed on its own.     *)
(* Every type is integer and every arm has its own constant.               *)
(***************************************************************************)
MaxFixed == 2
MaxVariants == 2
MaxArmFields == 2

RecFieldNames == {"x", "y"}
DuplicateField(n) == "Duplicate field name '" \o n \o "' in record"
NoElements == "No elements in record declaration"

\* the loop 'for(auto n : names)': a name that fields has already is an
\* error, another is pushed
RECURSIVE PushNames(_, _)
PushNames(fields, names) ==
    IF names = <<>> THEN [fields |-> fields, error |-> ""]
    ELSE IF \E i \in DOMAIN fields : fields[i] = Head(names)
    THEN [fields |-> fields, error |-> DuplicateField(Head(names))]
    ELSE PushNames(Append(fields, Head(names)), Tail(names))

\* Parser::ParseVariantDecl: each arm starts from its own empty fields
RECURSIVE ParseVariantDecl(_, _)
ParseVariantDecl(arms, variants) ==
    IF arms = <<>> THEN [variants |-> variants, error |-> ""]
    ELSE LET p == PushNames(<<>>, Head(arms))
         IN  IF p.error # "" THEN [variants |-> Null, error |-> p.error]
             ELSE ParseVariantDecl(Tail(arms), Append(variants, p.fields))

\* Parser::ParseFields: the fixed part, then the selector, pushed as it is,
\* then the variant part; hasVariant tells a variant from the null pointer
ParseFields(decl) ==
    LET fixed == PushNames(<<>>, decl.fixed)
        fields == IF decl.hasCase /\ decl.marker # ""
                  THEN Append(fixed.fields, decl.marker) ELSE fixed.fields
        v == ParseVariantDecl(decl.arms, <<>>)
    IN  IF fixed.error # ""
        THEN [ok |-> FALSE, fields |-> fixed.fields, hasVariant |-> FALSE,
              variant |-> Null, error |-> fixed.error]
        ELSE IF ~decl.hasCase
        THEN [ok |-> TRUE, fields |-> fields, hasVariant |-> FALSE,
              variant |-> Null, error |-> ""]
        ELSE IF v.error # ""
        THEN [ok |-> FALSE, fields |-> fields, hasVariant |-> FALSE,
              variant |-> Null, error |-> v.error]
        ELSE [ok |-> TRUE, fields |-> fields, hasVariant |-> TRUE,
              variant |-> v.variants, error |-> ""]

RecordDecls ==
    {[fixed |-> f, hasCase |-> FALSE, marker |-> "", arms |-> <<>>] :
        f \in SeqsUpTo(RecFieldNames, MaxFixed)}
    \cup
    {[fixed |-> f, hasCase |-> TRUE, marker |-> m, arms |-> a] :
        f \in SeqsUpTo(RecFieldNames, MaxFixed),
        m \in RecFieldNames \cup {""},
        a \in SeqsUpTo(SeqsUpTo(RecFieldNames, MaxArmFields) \ {<<>>}, MaxVariants) \ {<<>>}}

FieldsInit ==
    /\ fldDecl \in RecordDecls
    /\ fldErrors = {}
    /\ fldResult = Null
    /\ fldPc = "start"

\* Parser::ParseRecordDecl
ParseRecordDecl ==
    /\ fldPc = "start"
    /\ LET p == ParseFields(fldDecl)
       IN  IF ~p.ok
           THEN fldErrors' = fldErrors \cup {p.error} /\ fldResult' = Null
           ELSE IF p.fields = <<>> /\ ~p.hasVariant
           THEN fldErrors' = fldErrors \cup {NoElements} /\ fldResult' = Null
           ELSE fldErrors' = fldErrors
                /\ fldResult' = [fields |-> p.fields, variant |-> p.variant]
    /\ fldPc' = "parsed"
    /\ UNCHANGED fldDecl
    /\ UNCHANGED exceptFields

FieldsNext == ParseRecordDecl

InitFields ==
    ClosureIdle /\ TypeDefIdle /\ TypesIdle /\ VariantIdle /\ ForIdle /\ SetIdle /\ ClassIdle /\ ScopeIdle /\ ConstIdle /\ BitsIdle /\ StrIdle /\ InIdle /\ FieldsInit /\ WithIdle /\ BinIdle /\ ConstDefIdle /\ TokIdle /\ SetOpIdle /\ RangeIdle

SpecFields == InitFields /\ [][FieldsNext]_vars

\* every field name the declaration gives, in order
RECURSIVE Flatten(_)
Flatten(qs) == IF qs = <<>> THEN <<>> ELSE Head(qs) \o Flatten(Tail(qs))
DeclaredNames(decl) ==
    decl.fixed \o (IF decl.marker # "" THEN <<decl.marker>> ELSE <<>>) \o Flatten(decl.arms)
DeclaresTwice(decl) ==
    LET names == DeclaredNames(decl)
    IN  \E i, j \in DOMAIN names : i # j /\ names[i] = names[j]

\* C18: a record declaration that gives one field name twice, in the fixed
\* part, as the selector or in any variant arm, reports an error and
\* produces no type
C18_DuplicateFieldRejected ==
    (fldPc = "parsed" /\ DeclaresTwice(fldDecl)) =>
        /\ fldErrors # {}
        /\ fldResult = Null

(***************************************************************************)
(* 'with a, b do S': the scope ParseWithBlock pushes, the fields           *)
(* ExpandWithNames adds to it, and the identifiers looked up in S and      *)
(* after the statement.  A variable of the statement is the names of the   *)
(* fields of its record in the order ExpandWithNames meets them.           *)
(***************************************************************************)
MaxTargets == 2
MaxWithFields == 2

WithFieldNames == {"x", "y"}
WithLookups == {"x", "y", "z"}
TargetNames == <<"a", "b", "c">>

OuterVar(n) == [name |-> n, kind |-> "var", expr |-> ""]
\* WithDef(name, e, type), e the FieldExprAST on the variable v
WithDef(n, v) == [name |-> n, kind |-> "with", expr |-> v]
NotFound == [name |-> "", kind |-> "none", expr |-> ""]

\* nameStack.Find
WithFind(stack, n) ==
    IF \E i \in DOMAIN stack : InLevel(stack[i], n)
    THEN LET i == CHOOSE k \in DOMAIN stack :
                      /\ InLevel(stack[k], n)
                      /\ \A j \in DOMAIN stack : InLevel(stack[j], n) => j <= k
         IN  CHOOSE d \in stack[i] : d.name = n
    ELSE NotFound

\* Parser::ExpandWithNames on the variable v: nameStack.Add for each field,
\* whatever Add returns
RECURSIVE ExpandWithNames(_, _, _)
ExpandWithNames(stack, fields, v) ==
    IF fields = <<>> THEN stack
    ELSE ExpandWithNames(IF StackCanAdd(stack, Head(fields))
                         THEN StackAdd(stack, WithDef(Head(fields), v))
                         ELSE stack,
                         Tail(fields), v)

\* the loop 'for(auto v : vars)' of ParseWithBlock from variable i on
RECURSIVE ExpandAll(_, _, _)
ExpandAll(stack, targets, i) ==
    IF i > Len(targets) THEN stack
    ELSE ExpandAll(ExpandWithNames(stack, targets[i], TargetNames[i]), targets, i + 1)

WithRecords ==
    {q \in SeqsUpTo(WithFieldNames, MaxWithFields) :
        q # <<>> /\ \A i, j \in DOMAIN q : i # j => q[i] # q[j]}

\* the enclosing scope declares the variables of the statement and any of
\* the names looked up
WithInit ==
    /\ withTargets \in SeqsUpTo(WithRecords, MaxTargets) \ {<<>>}
    /\ \E outer \in SUBSET WithLookups :
           withEntry = << {OuterVar(TargetNames[i]) : i \in 1..MaxTargets}
                              \cup {OuterVar(n) : n \in outer} >>
    /\ withStack = withEntry
    /\ withPc = "start"
    /\ withName = ""
    /\ withFound = NotFound

\* Parser::ParseWithBlock up to the body: the NameWrapper and one
\* ExpandWithNames for each variable
ParseWithBlock ==
    /\ withPc = "start"
    /\ withStack' = ExpandAll(NewLevel(withStack), withTargets, 1)
    /\ withPc' = "body"
    /\ UNCHANGED <<withTargets, withEntry, withName, withFound>>
    /\ UNCHANGED exceptWith

\* an identifier of S, or of the text after the statement, looked up
WithLookup(n) ==
    /\ withPc \in {"body", "after"}
    /\ withName' = n
    /\ withFound' = WithFind(withStack, n)
    /\ UNCHANGED <<withTargets, withEntry, withStack, withPc>>
    /\ UNCHANGED exceptWith

\* the return of ParseWithBlock: the NameWrapper is destroyed
ParseWithBlockReturn ==
    /\ withPc = "body"
    /\ withStack' = DropLevel(withStack)
    /\ withPc' = "after"
    /\ withName' = ""
    /\ withFound' = NotFound
    /\ UNCHANGED <<withTargets, withEntry>>
    /\ UNCHANGED exceptWith

WithNext ==
    \/ ParseWithBlock
    \/ \E n \in WithLookups : WithLookup(n)
    \/ ParseWithBlockReturn

InitWith ==
    ClosureIdle /\ TypeDefIdle /\ TypesIdle /\ VariantIdle /\ ForIdle /\ SetIdle /\ ClassIdle /\ ScopeIdle /\ ConstIdle /\ BitsIdle /\ StrIdle /\ InIdle /\ FieldsIdle /\ WithInit /\ BinIdle /\ ConstDefIdle /\ TokIdle /\ SetOpIdle /\ RangeIdle

SpecWith == InitWith /\ [][WithNext]_vars

HasField(fields, n) == \E i \in DOMAIN fields : fields[i] = n

\* C19: in 'with a, b do S' where a and b both have the field x, x in S is
\* the field of b; after the statement every name resolves as it did before
C19_LaterWithTargetWins ==
    /\ (/\ withPc = "body"
        /\ withName # ""
        /\ Len(withTargets) = 2
        /\ HasField(withTargets[1], withName)
        /\ HasField(withTargets[2], withName))
           => withFound = WithDef(withName, TargetNames[2])
    /\ (withPc = "after" /\ withName # "")
           => withFound = WithFind(withEntry, withName)

(***************************************************************************)
(* BinaryExprAST::CodeGen from the lowering of its two operands on, for    *)
(* operands that are no sets and were both lowered to a value.             *)
(***************************************************************************)
IntegerTys == {"i1", "i8", "i32", "i64"}
IrTypes == IntegerTys \cup {"double"}
BinTokens == {"Plus", "Divide", "LessThan"}
DifferentTypes == "Different types..."

\* the promotion step: rty and lty as the code leaves them
Promote(lty0, rty0, oper) ==
    LET rToFloat == rty0 \in IntegerTys /\ (lty0 = "double" \/ oper = "Divide")
        lToFloat == lty0 \in IntegerTys /\ (rty0 = "double" \/ oper = "Divide")
        \* r = CreateSIToFP(r, Real); rty = r->getType()
        rty == IF rToFloat THEN "double" ELSE rty0
        \* l = CreateSIToFP(l, Real); lty = r->getType()
        lty == IF lToFloat THEN rty ELSE lty0
    IN  [lty |-> lty, rty |-> rty]

BinInit ==
    /\ binL \in IrTypes
    /\ binR \in IrTypes
    /\ binOper \in BinTokens
    /\ binNDebug \in BOOLEAN
    /\ binErrCnt = 0
    /\ binDiag = {}
    /\ binRes = ""
    /\ binPc = "start"

\* 'if (rty != lty)': the message on std::cout, then assert(0), which aborts
\* unless the build defines NDEBUG, then 'return 0'
CodeGenBinary ==
    /\ binPc = "start"
    /\ LET p == Promote(binL, binR, binOper)
       IN  IF p.rty # p.lty
           THEN /\ binDiag' = binDiag \cup {DifferentTypes}
                /\ binRes' = IF binNDebug THEN "null" ELSE "abort"
                /\ UNCHANGED binErrCnt
           ELSE /\ binRes' = "value"
                /\ UNCHANGED <<binDiag, binErrCnt>>
    /\ binPc' = "done"
    /\ UNCHANGED <<binL, binR, binOper, binNDebug>>
    /\ UNCHANGED exceptBin

BinNext == CodeGenBinary

InitBin ==
    VariantIdle /\ ForIdle /\ SetIdle /\ ClassIdle /\ ScopeIdle /\ ConstIdle /\ BitsIdle /\ StrIdle /\ InIdle /\ FieldsIdle /\ WithIdle /\ TypeDefIdle /\ TypesIdle /\ ClosureIdle /\ BinInit /\ ConstDefIdle /\ TokIdle /\ SetOpIdle /\ RangeIdle

SpecBin == InitBin /\ [][BinNext]_vars

\* C21: when the operands still have different IR types after the promotion
\* step, CodeGen emits a diagnostic, increments the error counter and
\* returns no value, and the compiler does not abort
C21_TypeMismatchIsReported ==
    (binPc = "done" /\ Promote(binL, binR, binOper).rty # Promote(binL, binR, binOper).lty) =>
        /\ binDiag # {}
        /\ binErrCnt = 1
        /\ binRes = "null"

(***************************************************************************)
(* The declarations 'name = expression;' of a const block, one pass of the *)
(* loop of Parser::ParseConstDef each.                                     *)
(***************************************************************************)
MaxConstDefs == 2

ConstNames == {"k", "m"}
\* ';' alone, 'a;' and 'a op b;': a missing value and 'a / b' do not evaluate
ConstDefExprs ==
    {<<Semicolon>>} \cup {<<a, Semicolon>> : a \in IntTokens}
        \cup {<<a, op, b, Semicolon>> : a \in IntTokens, op \in OpTokens, b \in IntTokens}
ConstDef(name, cd) == [name |-> name, kind |-> "const", cd |-> cd]
InvalidConstant == "Invalid constant value"
AlreadyConstant(name) == "Name " \o name \o " is already declared as a constant"

\* Parser::AddConst: the stack and the errors after it
AddConst(stack, name, cd) ==
    IF StackCanAdd(stack, name)
    THEN [stack |-> StackAdd(stack, ConstDef(name, cd)), errors |-> {}]
    ELSE [stack |-> stack, errors |-> {AlreadyConstant(name)}]

ConstDefInit ==
    /\ cdefEnv = << {} >>
    /\ cdefCount = 0
    /\ cdefLast = [name |-> "", expr |-> <<>>, before |-> << {} >>,
                   evaluated |-> TRUE, errors |-> {}]

\* one declaration: ParseConstExpr, Error when it gave nothing, then AddConst
\* with what it gave
ParseConstDef(nm, expr) ==
    /\ cdefCount < MaxConstDefs
    /\ LET cd == ParseConstExpr(expr, 1).cd
           invalid == IF cd = Null THEN {InvalidConstant} ELSE {}
           added == AddConst(cdefEnv, nm, cd)
       IN  /\ cdefEnv' = added.stack
           /\ cdefLast' = [name |-> nm, expr |-> expr, before |-> cdefEnv,
                           evaluated |-> cd # Null,
                           errors |-> invalid \cup added.errors]
    /\ cdefCount' = cdefCount + 1
    /\ UNCHANGED exceptConstDef

ConstDefNext == \E nm \in ConstNames, expr \in ConstDefExprs : ParseConstDef(nm, expr)

InitConstDef ==
    VariantIdle /\ ForIdle /\ SetIdle /\ ClassIdle /\ ScopeIdle /\ ConstIdle /\ BitsIdle /\ StrIdle /\ InIdle /\ FieldsIdle /\ WithIdle /\ BinIdle /\ TypeDefIdle /\ TypesIdle /\ ClosureIdle /\ ConstDefInit /\ TokIdle /\ SetOpIdle /\ RangeIdle

SpecConstDef == InitConstDef /\ [][ConstDefNext]_vars

\* C22: when the expression of a const declaration does not evaluate,
\* ParseConstDef reports an error and the name environment is as it was
\* before the declaration
C22_FailedConstAddsNothing ==
    (cdefCount > 0 /\ ~cdefLast.evaluated) =>
        /\ cdefLast.errors # {}
        /\ cdefEnv = cdefLast.before

(***************************************************************************)
(* Parser::NextToken and Parser::PeekToken over the tokens of the lexer.   *)
(***************************************************************************)
MaxTokens == 4

TokenKinds == {"id", "op"}
NoToken == ""

TokInit ==
    /\ lexTokens \in [1..MaxTokens -> TokenKinds]
    /\ lexPos = 0
    /\ curToken = NoToken
    /\ nextToken = NoToken
    /\ nextTokenValid = FALSE
    /\ tokHistory = <<>>
    /\ tokCall = [fn |-> "none", ret |-> NoToken, cur |-> NoToken]

\* a NextToken that leaves nextTokenValid set
NextToken_LookaheadKept ==
    /\ nextTokenValid \/ lexPos < Len(lexTokens)
    /\ IF nextTokenValid
       THEN /\ curToken' = nextToken
            /\ UNCHANGED <<nextTokenValid, lexPos>>
       ELSE /\ curToken' = lexTokens[lexPos + 1]
            /\ lexPos' = lexPos + 1
            /\ UNCHANGED nextTokenValid
    /\ tokHistory' = Append(tokHistory, curToken')
    /\ tokCall' = [fn |-> "NextToken", ret |-> curToken', cur |-> curToken]
    /\ UNCHANGED <<lexTokens, nextToken>>
    /\ UNCHANGED exceptTok

\* Parser::NextToken
NextToken ==
    /\ nextTokenValid \/ lexPos < Len(lexTokens)
    /\ IF nextTokenValid
       THEN /\ curToken' = nextToken
            /\ nextTokenValid' = FALSE
            /\ UNCHANGED lexPos
       ELSE /\ curToken' = lexTokens[lexPos + 1]
            /\ lexPos' = lexPos + 1
            /\ UNCHANGED nextTokenValid
    /\ tokHistory' = Append(tokHistory, curToken')
    /\ tokCall' = [fn |-> "NextToken", ret |-> curToken', cur |-> curToken]
    /\ UNCHANGED <<lexTokens, nextToken>>
    /\ UNCHANGED exceptTok

\* Parser::PeekToken
PeekToken ==
    /\ nextTokenValid \/ lexPos < Len(lexTokens)
    /\ IF nextTokenValid
       THEN UNCHANGED <<nextToken, nextTokenValid, lexPos>>
       ELSE /\ nextTokenValid' = TRUE
            /\ nextToken' = lexTokens[lexPos + 1]
            /\ lexPos' = lexPos + 1
    /\ tokCall' = [fn |-> "PeekToken", ret |-> nextToken', cur |-> curToken]
    /\ UNCHANGED <<lexTokens, curToken, tokHistory>>
    /\ UNCHANGED exceptTok

TokNext == NextToken \/ PeekToken

InitTok ==
    VariantIdle /\ ForIdle /\ SetIdle /\ ClassIdle /\ ScopeIdle /\ ConstIdle /\ BitsIdle /\ StrIdle /\ InIdle /\ FieldsIdle /\ WithIdle /\ BinIdle /\ ConstDefIdle /\ TypeDefIdle /\ TypesIdle /\ ClosureIdle /\ TokInit /\ SetOpIdle /\ RangeIdle

SpecTok == InitTok /\ [][TokNext]_vars

\* C23: the tokens NextToken makes current are the lexer's tokens in order,
\* none skipped or repeated; PeekToken returns the token the next NextToken
\* makes current and leaves the current token as it was; the parser never
\* holds more than one token read ahead of the current one
C23_OneTokenLookahead ==
    /\ tokHistory = SubSeq(lexTokens, 1, Len(tokHistory))
    /\ tokCall.fn = "PeekToken" =>
           /\ tokCall.ret = lexTokens[Len(tokHistory) + 1]
           /\ curToken = tokCall.cur
    /\ lexPos = Len(tokHistory) + (IF nextTokenValid THEN 1 ELSE 0)
    /\ nextTokenValid => nextToken = lexTokens[Len(tokHistory) + 1]
    /\ tokHistory # <<>> => curToken = tokHistory[Len(tokHistory)]

\* two tokens were made current and a third, of another kind than the
\* current one, was peeked at
C23_Witness ==
    /\ tokCall.fn = "PeekToken"
    /\ Len(tokHistory) = 2
    /\ lexPos = 3
    /\ tokCall.ret # curToken
    /\ curToken = lexTokens[2]

(***************************************************************************)
(* The anchor and the padding of a variant, over the layouts of            *)
(* SpecVariant.                                                            *)
(***************************************************************************)
Anchor == variantFields[maxAlignElt + 1]
MaxOf(S) == CHOOSE m \in S : \A x \in S : x <= m
MaxArmAlign == MaxOf({variantFields[i].align : i \in DOMAIN variantFields})
MaxArmBytes == MaxOf({variantFields[i].size : i \in DOMAIN variantFields})
\* the first arm of greatest size, counted from 0
FirstLargest ==
    (CHOOSE i \in DOMAIN variantFields :
        /\ variantFields[i].size = MaxArmBytes
        /\ \A j \in 1..(i - 1) : variantFields[j].size < MaxArmBytes) - 1

AnchorIsChosen ==
    /\ variantType.members[1] = Anchor.size
    /\ Anchor.align = MaxArmAlign
    /\ \A i \in DOMAIN variantFields :
           variantFields[i].align = MaxArmAlign => variantFields[i].size <= Anchor.size

\* C24: the anchor is an arm of greatest alignment and, among the arms of
\* that alignment, of greatest size; a padding element is emitted exactly
\* when some arm is strictly larger than the anchor, and then the anchor's
\* size plus the padding's length is the greatest arm size
C24_PaddingOnlyWhenLarger ==
    variantType.state = "struct" =>
        /\ AnchorIsChosen
        /\ Len(variantType.members) = 2 <=> MaxArmBytes > Anchor.size
        /\ Len(variantType.members) = 2 =>
               Anchor.size + variantType.members[2] = MaxArmBytes

\* C24 as amended: the anchor is an arm of greatest alignment and, among the
\* arms of that alignment, of greatest size; a padding element is emitted
\* exactly when the anchor is not the first arm of greatest size, its length
\* is the greatest arm size less the anchor's size (0 when the anchor has
\* the greatest size too), and without padding the anchor has the greatest
\* size
C24_PaddingUnlessFirstLargest ==
    variantType.state = "struct" =>
        /\ AnchorIsChosen
        /\ Len(variantType.members) = 2 <=> maxAlignElt # FirstLargest
        /\ Len(variantType.members) = 2 =>
               Anchor.size + variantType.members[2] = MaxArmBytes
        /\ Len(variantType.members) = 1 => Anchor.size = MaxArmBytes
        /\ MaxArmBytes > Anchor.size => Len(variantType.members) = 2

\* an anchor as large as the largest arm, behind an arm of that size and a
\* smaller alignment: a padding of no bytes
C24_Witness ==
    /\ variantType.state = "struct"
    /\ Len(variantType.members) = 2
    /\ variantType.members[2] = 0
    /\ Anchor.size = MaxArmBytes
    /\ maxAlignElt > 0

(***************************************************************************)
(* The call BinaryExprAST::CodeGen emits for an operator on two sets.      *)
(***************************************************************************)
SetOperands == [name : {"a", "b", "c"}, addressable : BOOLEAN]
SetOperTokens ==
    {"Minus", "Plus", "Multiply", "Equal", "NotEqual", "LessOrEqual", "GreaterOrEqual", "Divide"}
NoCall == [func |-> "", args |-> <<>>, negated |-> FALSE]

\* the pointer CallSetFunc passes for an operand: its address, or a
\* temporary its value is stored to
SetPointer(operand) ==
    IF operand.addressable THEN <<"address", operand.name>> ELSE <<"temp", operand.name>>

\* BinaryExprAST::CallSetFunc: CreateCall2(f, lV, rV)
CallSetFunc(name, lhs, rhs) ==
    [func |-> "__Set" \o name, args |-> <<SetPointer(lhs), SetPointer(rhs)>>, negated |-> FALSE]

SetOpInit ==
    /\ sopLhs \in SetOperands
    /\ sopRhs \in SetOperands
    /\ sopOper \in SetOperTokens
    /\ sopCall = NoCall
    /\ sopPc = "start"

\* the switch on the operator, both operands being sets
CodeGenSetOp ==
    /\ sopPc = "start"
    /\ sopCall' =
          CASE sopOper = "Minus" -> CallSetFunc("Diff", sopLhs, sopRhs)
            [] sopOper = "Plus" -> CallSetFunc("Union", sopLhs, sopRhs)
            [] sopOper = "Multiply" -> CallSetFunc("Intersect", sopLhs, sopRhs)
            [] sopOper = "Equal" -> CallSetFunc("Equal", sopLhs, sopRhs)
            [] sopOper = "NotEqual" ->
                   [CallSetFunc("Equal", sopLhs, sopRhs) EXCEPT !.negated = TRUE]
            [] sopOper = "LessOrEqual" -> CallSetFunc("Contains", sopLhs, sopRhs)
            [] sopOper = "GreaterOrEqual" -> CallSetFunc("Contains", sopLhs, sopRhs)
            [] OTHER -> NoCall
    /\ sopPc' = "done"
    /\ UNCHANGED <<sopLhs, sopRhs, sopOper>>
    /\ UNCHANGED exceptSetOp

SetOpNext == CodeGenSetOp

InitSetOp ==
    VariantIdle /\ ForIdle /\ SetIdle /\ ClassIdle /\ ScopeIdle /\ ConstIdle /\ BitsIdle /\ StrIdle /\ InIdle /\ FieldsIdle /\ WithIdle /\ BinIdle /\ ConstDefIdle /\ TokIdle /\ TypeDefIdle /\ TypesIdle /\ ClosureIdle /\ SetOpInit /\ RangeIdle

SpecSetOp == InitSetOp /\ [][SetOpNext]_vars

\* C25: for set operands 'a >= b' is a call of __SetContains with the
\* operands in the reverse order of the call for 'a <= b': 'a <= b' passes
\* a then b, 'a >= b' passes b then a
C25_GreaterOrEqualReversed ==
    /\ (sopPc = "done" /\ sopOper = "LessOrEqual") =>
           sopCall = CallSetFunc("Contains", sopLhs, sopRhs)
    /\ (sopPc = "done" /\ sopOper = "GreaterOrEqual") =>
           sopCall = CallSetFunc("Contains", sopRhs, sopLhs)

(***************************************************************************)
(* Element and GetElement as a pair, over the objects and the calls of     *)
(* SpecObject.                                                             *)
(***************************************************************************)
\* C26: when Element(n) on an object returns an index i >= 0, GetElement(i)
\* on that object is in range and returns the field named n, for objects
\* with and without a vtable pointer and for own and inherited fields
C26_GetElementOfElement ==
    (elemObj # 0 /\ elemRes >= 0) =>
        /\ elemRes < FieldCount(classes, elemObj)
        /\ GetElement(classes, elemObj, elemRes).name = elemName

(***************************************************************************)
(* The closure arguments of the calls inside a routine, over the programs  *)
(* of SpecClosure.                                                         *)
(***************************************************************************)
\* the variables appended to a call after the arguments that were written
ClosureArgs(c) == {calls[c].args[i] : i \in 1..Len(calls[c].args)} \ {"expr"}

\* C27: every variable appended as a closure argument to a call inside a
\* routine f is, within f, a parameter or a local of f, a global, or one of
\* the variables f itself captures
C27_ClosureArgsAreInScope ==
    mainPhase = "done" =>
        \A fid \in DOMAIN fns :
            fns[fid].hasBody =>
                \A i \in DOMAIN fns[fid].body :
                    ClosureArgs(fns[fid].body[i]) \subseteq
                        fns[fid].locals \cup LevelNames(nameStack[1])
                            \cup SeqRange(fns[fid].usedVars)

(***************************************************************************)
(* The member-function table.  ParseObjectDecl hands the constructor every *)
(* method of the declaration in the order written; nothing on the way      *)
(* refuses two methods of one name, so the lists here may name a method    *)
(* twice.  The constructor looks at the names only, so every method here   *)
(* is a virtual one.                                                       *)
(***************************************************************************)
MembFuncLists ==
    SeqsUpTo([name : MethodNames, flags : {"virtual"}], MaxMethods)

MembFuncsNext ==
    \E base \in 0..Len(classes), mf \in MembFuncLists : DeclareClass(base, <<>>, mf)

SpecMembFuncs == InitClass /\ [][MembFuncsNext]_vars

\* the method names of the table of cl, in the order of the table
TableNames(cl) == [i \in DOMAIN cl.membfuncs |-> memberFuncs[cl.membfuncs[i]].name]

\* C28: no table of member functions holds two methods of one name; the
\* table of a derived object starts with the names of its base's table in the
\* same order; so MembFunc(name) gives the same index in the base and in the
\* derived object whenever the base has the method.
C28_MembFuncTableStable ==
    \A c \in DOMAIN classes :
        LET cl == classes[c]
            names == TableNames(cl)
        IN  /\ \A i, j \in DOMAIN names : i # j => names[i] # names[j]
            /\ cl.baseobj # 0 =>
                   LET base == classes[cl.baseobj]
                       bnames == TableNames(base)
                   IN  /\ Len(bnames) <= Len(names)
                       /\ SubSeq(names, 1, Len(bnames)) = bnames
                       /\ \A nm \in MethodNames :
                              MembFunc(memberFuncs, base, nm) >= 0 =>
                                  MembFunc(memberFuncs, cl, nm)
                                      = MembFunc(memberFuncs, base, nm)

\* a derived object that replaced the second method of its base and added one
C28_Witness ==
    \E c \in DOMAIN classes :
        LET cl == classes[c]
        IN  /\ cl.baseobj # 0
            /\ Len(classes[cl.baseobj].membfuncs) = 1
            /\ Len(cl.membfuncs) = 2
            /\ cl.membfuncs[1] # classes[cl.baseobj].membfuncs[1]
            /\ MembFunc(memberFuncs, cl, TableNames(cl)[1]) = 0

(***************************************************************************)
(* Leaving the for loop.  The emitted code runs on: a block that can be    *)
(* executed is executed.                                                   *)
(***************************************************************************)
SpecForFair == SpecFor /\ WF_vars(ForNext)

\* C29: a for loop whose body terminates and leaves the loop variable alone
\* is left in the end, for every start and end value, the add of the step
\* wrapping.
C29_ForTerminates == <>(forPc = "afterloop")

(***************************************************************************)
(* A set literal with range elements (SetExprAST::Address), as the emitted *)
(* code executes.  The loop of a range is one block; it is taken in two    *)
(* steps here, the stores and the branch.  Every IR value is defined once: *)
(* 'low' in the loop is the value zext.low, each time the block runs.      *)
(***************************************************************************)
MaxSingles == 1
MaxRanges == 1

\* the single elements tried beside the range: one of each of the first two
\* words of the temporary
SingleValues == {1, 33}

\* the values whose bit is set in the temporary
BitsOf(mem) == {x \in 0..(MaxSetSize - 1) : mem[x \div 32][x % 32]}

\* after the memset of the temporary
RangeInit ==
    /\ rngMem = [w \in 0..(MaxSetWords - 1) |-> ZeroWord]
    /\ rngElems = {}
    /\ rngSingles = 0
    /\ rngRanges = 0
    /\ rngLow = 0
    /\ rngHigh = 0
    /\ rngPc = "literal"

\* the else branch: a single element x
RangeSingle(x) ==
    /\ rngPc = "literal"
    /\ rngSingles < MaxSingles
    /\ rngMem' = SetElement(rngMem, x)
    /\ rngElems' = rngElems \cup {x}
    /\ rngSingles' = rngSingles + 1
    /\ UNCHANGED <<rngRanges, rngLow, rngHigh, rngPc>>
    /\ UNCHANGED exceptRange

\* the range lo..hi: Low(), High(), the zero extensions and the branch to loop
RangeEntry(lo, hi) ==
    /\ rngPc = "literal"
    /\ rngRanges < MaxRanges
    /\ rngLow' = lo
    /\ rngHigh' = hi
    /\ rngElems' = rngElems \cup (lo..hi)
    /\ rngRanges' = rngRanges + 1
    /\ rngPc' = "loop"
    /\ UNCHANGED <<rngMem, rngSingles>>
    /\ UNCHANGED exceptRange

\* loop: index = low >> 5, offset = low & 31, bitset |= 1 << offset
RangeLoop ==
    /\ rngPc = "loop"
    /\ rngMem' = SetElement(rngMem, rngLow)
    /\ rngPc' = "latch"
    /\ UNCHANGED <<rngElems, rngSingles, rngRanges, rngLow, rngHigh>>
    /\ UNCHANGED exceptRange

\* loop, its end: update = low + 1, loopcond = update >= high,
\* br loopcond, loop, afterloop; after afterloop comes the next element
RangeLatch ==
    /\ rngPc = "latch"
    /\ LET update == rngLow + 1
           loopcond == update >= rngHigh
       IN  rngPc' = IF loopcond THEN "loop" ELSE "literal"
    /\ UNCHANGED <<rngMem, rngElems, rngSingles, rngRanges, rngLow, rngHigh>>
    /\ UNCHANGED exceptRange

RangeNext ==
    \/ \E x \in SingleValues : RangeSingle(x)
    \/ \E lo \in 0..(MaxSetSize - 1), hi \in 0..(MaxSetSize - 1) :
           lo <= hi /\ RangeEntry(lo, hi)
    \/ RangeLoop
    \/ RangeLatch

InitRange ==
    VariantIdle /\ ForIdle /\ SetIdle /\ ClassIdle /\ ScopeIdle /\ ConstIdle /\ BitsIdle /\ StrIdle /\ InIdle /\ FieldsIdle /\ WithIdle /\ BinIdle /\ ConstDefIdle /\ TokIdle /\ SetOpIdle /\ TypeDefIdle /\ TypesIdle /\ ClosureIdle /\ RangeInit

SpecRange == InitRange /\ [][RangeNext]_vars

\* the emitted code runs on: a block that can be executed is executed
SpecRangeFair == SpecRange /\ WF_vars(RangeNext)

\* C30: when the code of a range element lo..hi is left, exactly the bits of
\* the values lo..hi and of the other elements are set in the temporary
C30_RangeSetsExactlyItsBits ==
    rngPc = "literal" => BitsOf(rngMem) = rngElems

\* C30, termination: the loop of a range element is left
C30_RangeLoopIsLeft ==
    (rngPc = "loop") ~> (rngPc = "literal")

====
